---------------------------- MODULE Spec2Model ----------------------------
(***************************************************************************)
(* Invoice-processing pipeline: the four batch stages that share the       *)
(* workbook invoices_data.xlsx.                                             *)
(*                                                                         *)
(*   LoggerAgent      (agents/logger_agent.py)      BlockExtractor          *)
(*   MapperAgent      (agents/mapper_agent.py)      CatalogMatcher          *)
(*   GSTFetcherAgent  (agents/gst_fetcher_agent.py) TieredRateResolver      *)
(*   ReviewerAgent    (agents/reviewer_agent.py)    ReconciliationEngine    *)
(*                                                                         *)
(* Encoding of Python values.                                               *)
(*   - Identifier strings (DocNo, SellerGstin, HSN codes, sources) are TLA+ *)
(*     strings; "" stands for a falsy value (None or the empty string),     *)
(*     which every test of the code on these fields treats alike.           *)
(*   - Strings that the code processes character by character (item         *)
(*     descriptions, catalog model numbers) are sequences of one-character  *)
(*     strings.                                                             *)
(*   - A cell that may hold a number, None or text is a tagged record:      *)
(*     None_, Num(n), Txt.  Num(n) stands for the float n/256: every        *)
(*     numeric input of the model is a multiple of 1/256, so sums and       *)
(*     products of the inputs are exact in binary floating point, and       *)
(*     round(x, 2) of such a value is the exact round-half-even.            *)
(*   - A value produced by round(x, 2) is kept as an integer number of      *)
(*     hundredths (cents).                                                  *)
(***************************************************************************)
EXTENDS Integers, Sequences, FiniteSets, TLC

VARIABLES
    txtFile,    \* data/outputs/extracted_content.txt: NoText, or its lines
    wb,         \* data/outputs/invoices_data.xlsx: the workbook and its sheets
    last,       \* the stage that ran last and how it ended
    hsnFile,    \* data/local_cache/hsn_gst_map.json: the persisted rate cache
    hsnCache,   \* GSTFetcherAgent.hsn_cache of the live agent
    remote,     \* how the lookup service answered during the last stage run
    calls,      \* the _fetch_gst_details calls of the live agent, in order
    master,     \* data/outputs/master_file.xlsx: NoMaster, or its rows
    fpu,        \* the computed fields whose float rounds up at a decimal tie
    pipe        \* the runner of the stage scripts and its subprocesses

vars ==
    <<txtFile, wb, last, hsnFile, hsnCache, remote, calls, master, fpu, pipe>>

loggerVars == <<txtFile, wb, last>>
rateVars == <<hsnFile, hsnCache, remote, calls>>
\* What no stage writes: the catalog file, the arithmetic of the machine and
\* the runner that started the stage.
envVars == <<master, fpu, pipe>>

\* No runner: the stage scripts are run by hand.
NoPipe == [runner |-> "none", i |-> 0, phase |-> "none", child |-> <<>>,
           lines |-> 0]

(***************************************************************************)
(* Values                                                                  *)
(***************************************************************************)
None_ == [t |-> "none"]
Num(n) == [t |-> "num", n |-> n]
Txt == [t |-> "txt"]

IsNum(v) == v.t = "num"

\* Python truthiness of an identifier string.
Truthy(s) == s # ""

(***************************************************************************)
(* The extracted text.  A text is a sequence of lines; a line is recorded   *)
(* by which of LoggerAgent's patterns it matches and by the values those    *)
(* patterns capture.                                                        *)
(*   qr         the "[--- Decoded QR Payload(s) ---] {json} [" fragment;    *)
(*              ok is whether json.loads(...).get("data") yields a dict     *)
(*   validation a line whose strip() starts with "VALIDATION:"              *)
(*   hdr        the "S.N ... Amount(` )" heading of the items table         *)
(*   addcgst, hsntax   the other two terminators of the items table         *)
(*   blank      an empty line                                               *)
(*   sno        "<n>."     desc   free text     hsn8   eight digits         *)
(*   qty        "<q> <unit>"      num    a decimal number "<i>.<ff>"        *)
(*   text       any other line                                              *)
(***************************************************************************)
QrLine(ok, seller, docno, tot, hsn) ==
    [k |-> "qr", ok |-> ok,
     data |-> [SellerGstin |-> seller, DocNo |-> docno,
               TotInvVal |-> tot, MainHsnCode |-> hsn]]
ValidationLine == [k |-> "validation"]
HdrLine == [k |-> "hdr"]
AddCgstLine == [k |-> "addcgst"]
HsnTaxLine == [k |-> "hsntax"]
BlankLine == [k |-> "blank"]
TextLine == [k |-> "text"]
SnoLine(n) == [k |-> "sno", n |-> n]
DescLine(d) == [k |-> "desc", d |-> d]
Hsn8Line(c) == [k |-> "hsn8", c |-> c]
QtyLine(q, u) == [k |-> "qty", q |-> q, u |-> u]
NumLine(n) == [k |-> "num", n |-> n]
\* A run of digits that is not eight digits long.
DigitsLine(c) == [k |-> "digits", c |-> c]

NoText == [exists |-> FALSE, lines |-> <<>>]
TextOf(ls) == [exists |-> TRUE, lines |-> ls]

(***************************************************************************)
(* LoggerAgent._split_invoices: scan line by line, close the current block  *)
(* at every validation line; what follows the last one is not a block.      *)
(***************************************************************************)
RECURSIVE SplitLoop(_, _, _, _)
SplitLoop(text, i, current, blocks) ==
    IF i > Len(text) THEN blocks
    ELSE LET cur == Append(current, text[i])
         IN  IF text[i].k = "validation"
             THEN SplitLoop(text, i + 1, <<>>, Append(blocks, cur))
             ELSE SplitLoop(text, i + 1, cur, blocks)

\* Mutant: the lines after the last validation line are kept as a block.
RECURSIVE SplitLoopKeepTail(_, _, _, _)
SplitLoopKeepTail(text, i, current, blocks) ==
    IF i > Len(text)
    THEN (IF current = <<>> THEN blocks ELSE Append(blocks, current))
    ELSE LET cur == Append(current, text[i])
         IN  IF text[i].k = "validation"
             THEN SplitLoopKeepTail(text, i + 1, <<>>, Append(blocks, cur))
             ELSE SplitLoopKeepTail(text, i + 1, cur, blocks)

SplitInvoices_KeepTail(text) == SplitLoopKeepTail(text, 1, <<>>, <<>>)

SplitInvoices(text) == SplitLoop(text, 1, <<>>, <<>>)


(***************************************************************************)
(* LoggerAgent._parse_invoice                                              *)
(***************************************************************************)
\* Index of the first line of seq, from position `from` on, whose kind is
\* in kinds, or 0: what re.search finds first.
RECURSIVE FirstFrom(_, _, _)
FirstFrom(seq, from, kinds) ==
    IF from > Len(seq) THEN 0
    ELSE IF seq[from].k \in kinds THEN from
    ELSE FirstFrom(seq, from + 1, kinds)

ItemsEnd == {"addcgst", "hsntax", "validation"}
NonBlank(l) == l.k # "blank"

\* The payload pass (lines 67-87): the first payload fragment of the block;
\* a fragment that does not parse leaves qr_meta the empty dict.
NoQrMeta ==
    [present |-> FALSE, DocNo |-> "", SellerGstin |-> "",
     TotInvVal |-> None_, MainHsnCode |-> ""]

QrMetaOf(block) ==
    LET q == FirstFrom(block, 1, {"qr"})
    IN  IF q = 0 THEN NoQrMeta
        ELSE IF ~block[q].ok THEN NoQrMeta
        ELSE [present |-> TRUE,
              DocNo |-> block[q].data.DocNo,
              SellerGstin |-> block[q].data.SellerGstin,
              TotInvVal |-> block[q].data.TotInvVal,
              MainHsnCode |-> block[q].data.MainHsnCode]

\* clean_num (lines 94-97) on a group captured by [\d,]+\.\d{2}: None for
\* an absent group, else the float it spells.
CleanNum(v) == IF v = None_ THEN None_ ELSE Num(v.n)

\* Python's `a or b` on two optional floats: a when a is truthy (present and
\* not 0.0), else b.
PyOr(a, b) == IF IsNum(a) /\ a.n # 0 THEN a ELSE b

\* The tax-totals pass (lines 125-136).  A tax line carries the three or
\* four decimal amounts the pattern captures (g5 is None_ when absent).
TaxLine(g2, g3, g4, g5) == [k |-> "tax", g2 |-> g2, g3 |-> g3, g4 |-> g4, g5 |-> g5]

NoTaxes ==
    [TaxableAmount |-> None_, CGST_Amount |-> None_,
     SGST_Amount |-> None_, TotalTax |-> None_]

TaxesOf(block) ==
    LET t == FirstFrom(block, 1, {"tax"})
    IN  IF t = 0 THEN NoTaxes
        ELSE LET cg == CleanNum(block[t].g3)
                 sg == CleanNum(block[t].g4)
             IN  [TaxableAmount |-> CleanNum(block[t].g2),
                  CGST_Amount |-> cg,
                  SGST_Amount |-> sg,
                  TotalTax |-> PyOr(CleanNum(block[t].g5), Num(cg.n + sg.n))]

\* The items section (lines 139-141): from the first heading to the first
\* terminator after it, blank lines dropped.  A block always ends with its
\* validation line, so a heading always finds a terminator.
ItemsSection(block) ==
    LET h == FirstFrom(block, 1, {"hdr"})
        e == IF h = 0 THEN 0 ELSE FirstFrom(block, h + 1, ItemsEnd)
    IN  IF h = 0 \/ e = 0 THEN <<>>
        ELSE SelectSeq(SubSeq(block, h + 1, e - 1), NonBlank)

\* lines[j] with Python's indexing: j is 0-based, a negative j counts from
\* the end, and an index outside the list raises IndexError.
IndexError == [k |-> "IndexError"]
PyAt(lines, j) ==
    IF j >= 0 THEN (IF j < Len(lines) THEN lines[j + 1] ELSE IndexError)
    ELSE (IF -j <= Len(lines) THEN lines[Len(lines) + j + 1] ELSE IndexError)

\* re.match(r"[\d,\.]+\s+(SET|Pcs\.|KG|Units?)", line)
IsQtyLine(l) == l.k = "qty"
\* Mutant: a run of digits of any length passes for a category code.
IsHsn8_AnyLength(l) == l.k \in {"hsn8", "digits"}

\* re.fullmatch(r"\d{8}", line)
IsHsn8(l) == l.k = "hsn8"
\* re.match(r"^\d+\.", line): "<n>." and "<i>.<ff>" both start so.
MatchesSno(l) == l.k \in {"sno", "num"}
\* int(line.split(".")[0]); n of a num line is in 1/256.
SnoOf(l) == IF l.k = "sno" THEN Num(l.n) ELSE Num(l.n \div 256)
\* float(line.replace(",", "")) succeeds on "<i>.<ff>", "<n>." and on a
\* run of digits, and raises ValueError on anything else.
FloatOk(l) == l.k \in {"num", "sno", "hsn8", "digits"}
FloatOf(l) == IF l.k = "num" THEN Num(l.n) ELSE IF l.k = "sno" THEN Num(l.n * 256) ELSE Num(l.c * 256)

\* The body of the loop at lines 142-170 for the 0-based index i: the
\* LineItem it appends, as a sequence of length 0 or 1.
ItemAt(lines, i) ==
    LET qty_line == PyAt(lines, i)
        hsn_line == PyAt(lines, i - 1)
        desc_line == PyAt(lines, i - 2)
        rate_line == PyAt(lines, i + 1)
        amt_line == PyAt(lines, i + 2)
        sno_line == PyAt(lines, i - 3)
    IN  IF ~IsQtyLine(qty_line) THEN <<>>
        ELSE IF IndexError \in {hsn_line, desc_line, rate_line, amt_line} THEN <<>>
        ELSE IF ~IsHsn8(hsn_line) THEN <<>>
        ELSE IF sno_line = IndexError THEN <<>>
        ELSE IF ~FloatOk(rate_line) \/ ~FloatOk(amt_line) THEN <<>>
        ELSE << [SNo |-> IF MatchesSno(sno_line) THEN SnoOf(sno_line) ELSE None_,
                 Description |-> desc_line,
                 HSN |-> hsn_line.c,
                 Quantity |-> Num(qty_line.q * 256),
                 Unit |-> qty_line.u,
                 Rate |-> FloatOf(rate_line),
                 Amount |-> FloatOf(amt_line)] >>

RECURSIVE ItemsLoop(_, _)
ItemsLoop(lines, i) ==
    IF i >= Len(lines) THEN <<>>
    ELSE ItemAt(lines, i) \o ItemsLoop(lines, i + 1)

ParseItems(block) == ItemsLoop(ItemsSection(block), 0)

ParseInvoice(block) ==
    LET qr == QrMetaOf(block)
        tx == TaxesOf(block)
    IN  [summary |-> [DocNo |-> qr.DocNo, SellerGstin |-> qr.SellerGstin,
                      TotInvVal |-> qr.TotInvVal,
                      TaxableAmount |-> tx.TaxableAmount,
                      CGST_Amount |-> tx.CGST_Amount,
                      SGST_Amount |-> tx.SGST_Amount,
                      TotalTax |-> tx.TotalTax],
         items |-> ParseItems(block),
         qr_meta |-> qr]

(***************************************************************************)
(* The workbook.  Invoice_Summary, Line_Items and QR_Meta are created with  *)
(* the file; the other sheets exist once the stage that owns them has       *)
(* saved (sheets is the set of those present).  Columns the stages only     *)
(* copy (dates, IRN, transport fields, vendor name, the verdict text) are   *)
(* left out of the rows.                                                    *)
(***************************************************************************)
NoWorkbook ==
    [exists |-> FALSE,
     Invoice_Summary |-> <<>>, Line_Items |-> <<>>, QR_Meta |-> <<>>,
     sheets |-> {},
     Mapped_Items |-> <<>>, Unmapped_Items |-> <<>>, GST_Fetch |-> <<>>,
     Review_Report |-> <<>>, LineItem_Errors |-> <<>>,
     ItemCategory |-> FALSE]

\* LoggerAgent.__init__ / _init_excel: create the file, with its three
\* header-only sheets, if it does not exist.
InitExcel(w) == IF w.exists THEN w ELSE [NoWorkbook EXCEPT !.exists = TRUE]

\* Mutant: a sheet that exists is kept and written on.
ResetSheet_Keep(rows) == rows

\* del wb[sheet]; wb.create_sheet(sheet): the rows the sheet starts with
\* (mapper lines 57-63, gst fetcher lines 104-106, reviewer lines 76-81).
ResetSheet(rows) == <<>>

\* f"{SellerGstin}_{DocNo}"
CompKey(seller, docno) == seller \o "_" \o docno

\* existing_keys as built from the sheet (line 191).
ExistingKeys(summaryRows) ==
    {CompKey(summaryRows[i].SellerGstin, summaryRows[i].DocNo) :
        i \in 1..Len(summaryRows)}

\* Mutant: the lookup before insert is left out.
IsDuplicate_NoLookup(key, keys) == FALSE

\* The test at line 200.
IsDuplicate(key, keys) == key \in keys

\* One Line_Items row (lines 216-220); the "Item Category" cell is empty
\* until ReviewerAgent fills it.
ItemRow(docno, item) ==
    [DocNo |-> docno, SNo |-> item.SNo, Description |-> item.Description,
     HSN |-> item.HSN, Quantity |-> item.Quantity, Unit |-> item.Unit,
     Rate |-> item.Rate, Amount |-> item.Amount, Category |-> ""]

RECURSIVE ItemRows(_, _, _)
ItemRows(docno, items, i) ==
    IF i > Len(items) THEN <<>>
    ELSE <<ItemRow(docno, items[i])>> \o ItemRows(docno, items, i + 1)

QrRow(q) ==
    [DocNo |-> q.DocNo, SellerGstin |-> q.SellerGstin,
     TotInvVal |-> q.TotInvVal, MainHsnCode |-> q.MainHsnCode]

\* The loop over the blocks (lines 193-231).  t holds the three sheets'
\* rows, the set existing_keys and the number of "Skipping duplicate"
\* messages printed so far.
RECURSIVE LoggerLoop(_, _, _)
LoggerLoop(blocks, i, t) ==
    IF i > Len(blocks) THEN t
    ELSE LET p == ParseInvoice(blocks[i])
             key == CompKey(p.summary.SellerGstin, p.summary.DocNo)
         IN  IF ~Truthy(p.summary.DocNo) \/ ~Truthy(p.summary.SellerGstin)
             THEN LoggerLoop(blocks, i + 1, t)
             ELSE IF IsDuplicate(key, t.keys)
             THEN LoggerLoop(blocks, i + 1, [t EXCEPT !.dups = @ + 1])
             ELSE LoggerLoop(blocks, i + 1,
                    [S |-> Append(t.S, p.summary),
                     I |-> t.I \o ItemRows(p.summary.DocNo, p.items, 1),
                     Q |-> IF p.qr_meta.present
                           THEN Append(t.Q, QrRow(p.qr_meta)) ELSE t.Q,
                     keys |-> t.keys \cup {key},
                     dups |-> t.dups])

\* LoggerAgent.process from line 183 on.
LoggerRun(w, text) ==
    LoggerLoop(SplitInvoices(text), 1,
        [S |-> w.Invoice_Summary, I |-> w.Line_Items, Q |-> w.QR_Meta,
         keys |-> ExistingKeys(w.Invoice_Summary), dups |-> 0])

\* The workbook as saved at line 233.
LoggerSave(w, text) ==
    LET t == LoggerRun(w, text)
    IN  [w EXCEPT !.Invoice_Summary = t.S, !.Line_Items = t.I, !.QR_Meta = t.Q]

\* What a stage run leaves behind for the observer: which stage, how it
\* ended ("ok", "halt" for a reported early return, "keyerror" for the
\* uncaught KeyError of a missing sheet, "raise" for an exception uncaught
\* in the loop over the rows), for LoggerAgent how many duplicates it
\* reported, and whether the run repeated the run before it: the same
\* stage, run to the end both times, nothing else run in between.
NoStage == [stage |-> "none", outcome |-> "ok", dups |-> 0, again |-> FALSE]

Ended(stage, outcome) ==
    [stage |-> stage, outcome |-> outcome, dups |-> 0,
     again |-> last.stage = stage /\ last.outcome = "ok" /\ outcome = "ok"]

(***************************************************************************)
(* GSTFetcherAgent: the rate cache and _fetch_gst_details                  *)
(*                                                                         *)
(* A cache (in memory or in the file) is a function from the codes it       *)
(* holds to [gst_rate, description].  gst_rate is Num(256 * percent).       *)
(***************************************************************************)
Pct(p) == Num(p * 256)

\* HSN_FALLBACK (lines 15-19)
HSN_FALLBACK ==
    [c \in {"94035000", "94036000"} |->
        IF c = "94035000"
        THEN [gst_rate |-> Pct(18), description |-> "Wooden furniture"]
        ELSE [gst_rate |-> Pct(12), description |-> "Metal furniture"]]

NoCacheFile == [exists |-> FALSE, map |-> << >>]

\* {**a, **b}: the entries of b win.
DictMerge(a, b) ==
    [c \in DOMAIN a \cup DOMAIN b |-> IF c \in DOMAIN b THEN b[c] ELSE a[c]]

\* Mutant: the file's entries alone, without the fallback seed.
LoadHsnCache_NoSeed(file) == IF file.exists THEN file.map ELSE << >>

\* _load_hsn_cache (lines 28-36)
LoadHsnCache(file) ==
    IF file.exists THEN DictMerge(HSN_FALLBACK, file.map) ELSE HSN_FALLBACK

\* _save_hsn_cache (lines 38-42)
SaveHsnCache(cache) == [exists |-> TRUE, map |-> cache]

\* What the lookup service can answer to one request (lines 56-74):
\*   error   requests.get or the parsing raises (no network, timeout)
\*   status  a status code other than 200
\*   norow   no table row whose first cell equals the code
\*   row     such a row; rate is the integer re.search(r"(\d{1,2})") finds
\*           in its third cell, None_ if it finds none
URL(hsn) == "https://vakilsearch.com/hsn-code/search/" \o hsn

RowAnswer(rate, desc) == [kind |-> "row", rate |-> rate, description |-> desc]

Answers ==
    { [kind |-> "error"], [kind |-> "status"], [kind |-> "norow"],
      RowAnswer(None_, "Steel utensils"),
      RowAnswer(Pct(0), "Exempt goods"),
      RowAnswer(Pct(5), "Steel utensils"),
      RowAnswer(Pct(18), "Steel utensils") }

\* Python truthiness of an optional number.
TruthyNum(v) == IsNum(v) /\ v.n # 0

\* Mutant: no cache tier; the service is asked about every code and its
\* answer is written over the entry the cache holds.
FetchGstDetails_NoCacheTier(hsn, cache, answer) ==
    IF answer.kind = "row" /\ TruthyNum(answer.rate)
    THEN [gst_rate |-> answer.rate, description |-> answer.description,
          source |-> URL(hsn),
          cache |-> DictMerge(cache,
                       [c \in {hsn} |-> [gst_rate |-> answer.rate,
                                         description |-> answer.description]]),
          contacted |-> TRUE]
    ELSE IF hsn \in DOMAIN cache
    THEN [gst_rate |-> cache[hsn].gst_rate,
          description |-> cache[hsn].description,
          source |-> "Local Cache", cache |-> cache, contacted |-> TRUE]
    ELSE [gst_rate |-> None_, description |-> "",
          source |-> "Not Found", cache |-> cache, contacted |-> TRUE]

\* Mutant: a lookup the service does not satisfy leaves an entry without
\* a rate in the cache.
FetchGstDetails_CachesMiss(hsn, cache, answer) ==
    IF hsn \in DOMAIN cache
    THEN [gst_rate |-> cache[hsn].gst_rate,
          description |-> cache[hsn].description,
          source |-> "Local Cache", cache |-> cache, contacted |-> FALSE]
    ELSE IF answer.kind = "row" /\ TruthyNum(answer.rate)
    THEN [gst_rate |-> answer.rate, description |-> answer.description,
          source |-> URL(hsn),
          cache |-> DictMerge(cache,
                       [c \in {hsn} |-> [gst_rate |-> answer.rate,
                                         description |-> answer.description]]),
          contacted |-> TRUE]
    ELSE [gst_rate |-> None_, description |-> "",
          source |-> "Not Found",
          cache |-> DictMerge(cache,
                       [c \in {hsn} |-> [gst_rate |-> None_,
                                         description |-> ""]]),
          contacted |-> TRUE]

\* _fetch_gst_details (lines 44-92) for the code hsn, the cache as it is
\* and the service's answer: the returned triple, the cache afterwards and
\* whether the service was contacted.
FetchGstDetails(hsn, cache, answer) ==
    IF hsn \in DOMAIN cache
    THEN [gst_rate |-> cache[hsn].gst_rate,
          description |-> cache[hsn].description,
          source |-> "Local Cache", cache |-> cache, contacted |-> FALSE]
    ELSE IF answer.kind = "row" /\ TruthyNum(answer.rate)
    THEN [gst_rate |-> answer.rate, description |-> answer.description,
          source |-> URL(hsn),
          cache |-> DictMerge(cache,
                       [c \in {hsn} |-> [gst_rate |-> answer.rate,
                                         description |-> answer.description]]),
          contacted |-> TRUE]
    ELSE IF hsn \in DOMAIN HSN_FALLBACK
    THEN [gst_rate |-> HSN_FALLBACK[hsn].gst_rate,
          description |-> HSN_FALLBACK[hsn].description,
          source |-> "Fallback Dictionary", cache |-> cache, contacted |-> TRUE]
    ELSE [gst_rate |-> None_, description |-> "",
          source |-> "Not Found", cache |-> cache, contacted |-> TRUE]

\* The codes the model asks about: the two of the fallback table and two
\* the table does not hold.
Codes == {"94035000", "94036000", "73239920", "39269099"}

MaxCalls == 2

\* The master file when it does not exist.
NoMaster == [exists |-> FALSE, rows |-> <<>>]

\* No catalog file; no input of the model makes a computed field a tie.
InitEnv ==
    /\ master = NoMaster
    /\ fpu = {}
    /\ pipe = NoPipe

InitRates ==
    /\ hsnFile = NoCacheFile
    /\ hsnCache = LoadHsnCache(NoCacheFile)
    /\ remote = [c \in Codes |-> [kind |-> "error"]]
    /\ calls = <<>>

\* GSTFetcherAgent(): a new agent loads the cache (line 26).
NewAgent ==
    /\ hsnCache' = LoadHsnCache(hsnFile)
    /\ calls' = <<>>
    /\ UNCHANGED <<envVars, hsnFile, remote, loggerVars>>

\* One call of _fetch_gst_details on the live agent; the service, which is
\* outside the program, gives any of its answers.
Resolve ==
    /\ Len(calls) < MaxCalls
    /\ \E hsn \in Codes, answer \in Answers :
          LET r == FetchGstDetails(hsn, hsnCache, answer)
          IN  /\ hsnCache' = r.cache
              /\ calls' = Append(calls,
                    [hsn |-> hsn, answer |-> answer,
                     gst_rate |-> r.gst_rate, description |-> r.description,
                     source |-> r.source, contacted |-> r.contacted,
                     inFile |-> hsnFile.exists /\ hsn \in DOMAIN hsnFile.map])
    /\ UNCHANGED <<envVars, hsnFile, remote, loggerVars>>

\* The save at the end of a run (line 145).
SaveCache ==
    /\ hsnFile' = SaveHsnCache(hsnCache)
    /\ UNCHANGED <<envVars, hsnCache, remote, calls, loggerVars>>

InitResolver ==
    /\ txtFile = NoText
    /\ wb = NoWorkbook
    /\ last = NoStage
    /\ InitRates
    /\ InitEnv

NextResolver == NewAgent \/ Resolve \/ SaveCache

SpecResolver == InitResolver /\ [][NextResolver]_vars

(***************************************************************************)
(* Properties of the rate resolver                                         *)
(***************************************************************************)
\* The calls the claim is about: for a code of the fallback table that the
\* persisted file did not hold when the call was made.
FallbackOnly(c) == c.hsn \in DOMAIN HSN_FALLBACK /\ ~c.inFile

FirstCallFor(i) == \A j \in 1..(i - 1) : calls[j].hsn # calls[i].hsn

\* C3, as claimed: for a code present only in the static fallback table the
\* first resolve call returns source "fallback", and a second call for the
\* same code is satisfied by the cache tier without contacting the service.
C3_AsClaimed ==
    \A i \in 1..Len(calls) :
        FallbackOnly(calls[i]) =>
            IF FirstCallFor(i)
            THEN calls[i].source = "Fallback Dictionary"
            ELSE calls[i].source = "Local Cache" /\ ~calls[i].contacted

\* What holds instead: for a code present only in the static fallback table
\* every resolve call, the first as well as the second, is satisfied by the
\* cache tier (the cache is seeded with the fallback table when it is
\* loaded): it returns the fallback table's rate with source "Local Cache"
\* and does not contact the service.
C3_FallbackCodeServedByCache ==
    \A i \in 1..Len(calls) :
        FallbackOnly(calls[i]) =>
            /\ calls[i].source = "Local Cache"
            /\ ~calls[i].contacted
            /\ calls[i].gst_rate = HSN_FALLBACK[calls[i].hsn].gst_rate

\* Two calls for the same fallback-only code have been made.
C3_Witness ==
    \E i, j \in 1..Len(calls) :
        /\ i < j
        /\ calls[i].hsn = calls[j].hsn
        /\ FallbackOnly(calls[i]) /\ FallbackOnly(calls[j])

(***************************************************************************)
(* The ingestion and validation collaborators write the text file: the      *)
(* file is started empty and grows by appended fragments.  The fragments    *)
(* below are the ones the model feeds to LoggerAgent.                       *)
(***************************************************************************)
MaxSegs == 3

Amt(i) == i * 256

QrSegs ==
    { <<QrLine(TRUE, "A_B", "C", Num(Amt(354)), "94035000")>>,
      <<QrLine(TRUE, "A", "B_C", Num(Amt(118)), "94036000")>>,
      <<QrLine(TRUE, "A", "C", None_, "73239920")>> }

ItemsSeg ==
    <<HdrLine, DescLine(<<"X">>), Hsn8Line(7323), QtyLine(2, "SET"),
      NumLine(Amt(150)), NumLine(Amt(300))>>

LoggerSegs == QrSegs \cup {ItemsSeg, <<ValidationLine>>}

\* The number of fragments a text is made of: each fragment holds exactly
\* one payload, heading or validation line.
NumSegs(lines) ==
    Cardinality({i \in 1..Len(lines) : lines[i].k \in {"qr", "hdr", "validation"}})

\* ingestion_agent.py lines 102-104: start the file empty.
IngestStart ==
    /\ txtFile' = TextOf(<<>>)
    /\ last' = Ended("ingest", "ok")
    /\ UNCHANGED <<envVars, wb, rateVars>>

IngestAppend ==
    /\ txtFile.exists
    /\ \E seg \in LoggerSegs :
          /\ NumSegs(txtFile.lines) < MaxSegs
          /\ txtFile' = TextOf(txtFile.lines \o seg)
    /\ last' = Ended("ingest", "ok")
    /\ UNCHANGED <<envVars, wb, rateVars>>

\* LoggerAgent() followed by process(), as the script runs them.
LoggerProcess ==
    /\ IF ~txtFile.exists
       THEN /\ wb' = InitExcel(wb)
            /\ last' = Ended("logger", "halt")
       ELSE /\ wb' = LoggerSave(InitExcel(wb), txtFile.lines)
            /\ last' = [Ended("logger", "ok") EXCEPT
                            !.dups = LoggerRun(InitExcel(wb), txtFile.lines).dups]
    /\ UNCHANGED <<envVars, txtFile, rateVars>>

InitLogger ==
    /\ txtFile = NoText
    /\ wb = NoWorkbook
    /\ last = NoStage
    /\ InitRates
    /\ InitEnv

NextLogger == IngestStart \/ IngestAppend \/ LoggerProcess

SpecLogger == InitLogger /\ [][NextLogger]_vars

(***************************************************************************)
(* Properties of LoggerAgent                                               *)
(***************************************************************************)
IsPrefix(a, b) == Len(a) <= Len(b) /\ SubSeq(b, 1, Len(a)) = a

LoggerRan == last.stage = "logger" /\ last.outcome = "ok"

\* The (SellerGstin, DocNo) pairs of the terminated blocks of a text that
\* carry both values.
IngestedPairs(text) ==
    LET blocks == SplitInvoices(text)
    IN  { <<QrMetaOf(blocks[i]).SellerGstin, QrMetaOf(blocks[i]).DocNo>> :
            i \in { j \in 1..Len(blocks) :
                      /\ Truthy(QrMetaOf(blocks[j]).SellerGstin)
                      /\ Truthy(QrMetaOf(blocks[j]).DocNo) } }

RowsOfPair(pair) ==
    { i \in 1..Len(wb.Invoice_Summary) :
        /\ wb.Invoice_Summary[i].SellerGstin = pair[1]
        /\ wb.Invoice_Summary[i].DocNo = pair[2] }

\* At most one Document row per (SellerGstin, DocNo) pair.
AtMostOneRowPerPair ==
    \A i, j \in 1..Len(wb.Invoice_Summary) :
        ( /\ wb.Invoice_Summary[i].SellerGstin = wb.Invoice_Summary[j].SellerGstin
          /\ wb.Invoice_Summary[i].DocNo = wb.Invoice_Summary[j].DocNo ) => i = j

\* C1: after any sequence of LoggerAgent runs the Document table holds at
\* most one row per (SellerTaxId, DocNo) pair, and exactly one row for every
\* distinct pair that was ingested.
C1_OneRowPerIngestedPair ==
    /\ AtMostOneRowPerPair
    /\ LoggerRan =>
         \A pair \in IngestedPairs(txtFile.lines) :
             Cardinality(RowsOfPair(pair)) = 1

\* The text with the terminated blocks whose composite key is in keys
\* taken out.
RECURSIVE ConcatBlocks(_, _, _)
ConcatBlocks(blocks, i, keys) ==
    IF i > Len(blocks) THEN <<>>
    ELSE LET q == QrMetaOf(blocks[i])
         IN  (IF /\ Truthy(q.DocNo) /\ Truthy(q.SellerGstin)
                 /\ CompKey(q.SellerGstin, q.DocNo) \in keys
              THEN <<>> ELSE blocks[i])
             \o ConcatBlocks(blocks, i + 1, keys)

WithoutBlocksKeyed(text, keys) == ConcatBlocks(SplitInvoices(text), 1, keys)

\* C2: re-ingesting a block whose composite key is already in the store is
\* a no-op: a LoggerAgent run appends to Document, LineItem and PayloadMeta
\* exactly what it appends for the text without those blocks, no appended
\* Document carries a key that was in the store, and the rows that were in
\* the three tables are unchanged.
C2_DuplicateIsNoOp ==
    [][ (last'.stage = "logger" /\ txtFile.exists) =>
          LET w0 == InitExcel(wb)
              keys == ExistingKeys(wb.Invoice_Summary)
          IN  /\ wb' = LoggerSave(w0, WithoutBlocksKeyed(txtFile.lines, keys))
              /\ IsPrefix(wb.Invoice_Summary, wb'.Invoice_Summary)
              /\ IsPrefix(wb.Line_Items, wb'.Line_Items)
              /\ IsPrefix(wb.QR_Meta, wb'.QR_Meta)
              /\ \A i \in (Len(wb.Invoice_Summary) + 1)..Len(wb'.Invoice_Summary) :
                    CompKey(wb'.Invoice_Summary[i].SellerGstin,
                            wb'.Invoice_Summary[i].DocNo) \notin keys
    ]_vars

\* A run has skipped at least one block as a duplicate, and the store holds
\* rows of all three tables.
C2_Witness ==
    /\ LoggerRan
    /\ last.dups > 0
    /\ Len(wb.Invoice_Summary) > 0 /\ Len(wb.Line_Items) > 0 /\ Len(wb.QR_Meta) > 0

\* The index of the last validation line of a text, 0 if there is none.
LastValidation(text) ==
    LET V == {i \in 1..Len(text) : text[i].k = "validation"}
    IN  IF V = {} THEN 0 ELSE CHOOSE i \in V : \A j \in V : j <= i

\* C7: content that is not followed by a validation line is never
\* committed: a LoggerAgent run leaves the store as it leaves it for the
\* text cut after its last validation line, and a text with no validation
\* line adds no Document, LineItem or PayloadMeta row.
C7_UnterminatedNeverCommitted ==
    [][ (last'.stage = "logger" /\ txtFile.exists) =>
          LET w0 == InitExcel(wb)
              cut == SubSeq(txtFile.lines, 1, LastValidation(txtFile.lines))
          IN  /\ wb' = LoggerSave(w0, cut)
              /\ LastValidation(txtFile.lines) = 0 => wb' = w0
    ]_vars

\* A run over a text whose unterminated tail carries a payload with a key
\* the store does not hold, and an items table.
C7_Witness ==
    /\ LoggerRan
    /\ \E i, j \in (LastValidation(txtFile.lines) + 1)..Len(txtFile.lines) :
          /\ txtFile.lines[i].k = "qr"
          /\ txtFile.lines[j].k = "qty"
          /\ CompKey(txtFile.lines[i].data.SellerGstin, txtFile.lines[i].data.DocNo)
                \notin ExistingKeys(wb.Invoice_Summary)

(***************************************************************************)
(* GSTFetcherAgent.process                                                 *)
(***************************************************************************)
\* hsn_lookup.get(docno) (lines 113-117, 125): the code of the last QR_Meta
\* row of the document that has one, "" if there is none.
HsnLookup(qrRows, docno) ==
    LET R == {i \in 1..Len(qrRows) :
                /\ qrRows[i].DocNo = docno
                /\ Truthy(qrRows[i].MainHsnCode)}
    IN  IF R = {} THEN ""
        ELSE qrRows[CHOOSE i \in R : \A j \in R : j <= i].MainHsnCode

\* desc_display (line 138): a description longer than 80 characters is cut
\* to its first 80 and "..." appended.
DescDisplay(description) ==
    IF Truthy(description) /\ Len(description) > 80
    THEN [first80of |-> description]
    ELSE description

\* Mutant: the whole rate is written into both halves.
HalfRate_Whole(gst_rate) ==
    IF TruthyNum(gst_rate) THEN Num(gst_rate.n) ELSE None_

\* cgst_rate, sgst_rate (lines 132-136)
HalfRate(gst_rate) ==
    IF TruthyNum(gst_rate) THEN Num(gst_rate.n \div 2) ELSE None_

\* The GST_Fetch row appended at line 140.
GstRow(docno, hsn, r) ==
    [DocNo |-> docno, HSN |-> hsn,
     Description |-> DescDisplay(r.description),
     GST_Rate |-> r.gst_rate,
     CGST_Rate |-> HalfRate(r.gst_rate),
     SGST_Rate |-> HalfRate(r.gst_rate),
     Source |-> r.source]

\* The loop over Invoice_Summary (lines 120-141).  t holds the GST_Fetch
\* rows written so far and the agent's cache; answers gives, for each code,
\* what the service answers when it is asked.
RECURSIVE GstLoop(_, _, _, _, _)
GstLoop(summaryRows, qrRows, answers, i, t) ==
    IF i > Len(summaryRows) THEN t
    ELSE LET docno == summaryRows[i].DocNo
             hsn == HsnLookup(qrRows, docno)
         IN  IF ~Truthy(docno) \/ ~Truthy(hsn)
             THEN GstLoop(summaryRows, qrRows, answers, i + 1, t)
             ELSE LET r == FetchGstDetails(hsn, t.cache, answers[hsn])
                  IN  GstLoop(summaryRows, qrRows, answers, i + 1,
                              [rows |-> Append(t.rows, GstRow(docno, hsn, r)),
                               cache |-> r.cache])

\* How the service answers during one run of the stage: it fails, or it
\* finds a row for every code it is asked about, with a rate that is zero
\* or not.
RunAnswers ==
    { [kind |-> "error"],
      RowAnswer(Pct(0), "Exempt goods"),
      RowAnswer(Pct(5), "Steel utensils") }

\* GSTFetcherAgent() followed by process(), as the script runs them (lines
\* 149-151).  The service answers every request of one run in the same
\* way, with one of the answers of answerSet.
GSTFetcherRun(answerSet) ==
    /\ \E answer \in answerSet :
          LET answers == [c \in Codes |-> answer]
              t == GstLoop(wb.Invoice_Summary, wb.QR_Meta, answers, 1,
                           [rows |-> <<>>, cache |-> LoadHsnCache(hsnFile)])
          IN  /\ remote' = answers
              /\ IF ~wb.exists
                 THEN /\ wb' = wb
                      /\ hsnCache' = LoadHsnCache(hsnFile)
                      /\ hsnFile' = hsnFile
                      /\ last' = Ended("gst", "halt")
                 ELSE /\ wb' = [wb EXCEPT !.sheets = @ \cup {"GST_Fetch"},
                                          !.GST_Fetch = ResetSheet(@) \o t.rows]
                      /\ hsnCache' = t.cache
                      /\ hsnFile' = SaveHsnCache(t.cache)
                      /\ last' = [Ended("gst", "ok") EXCEPT
                                      !.again = @ /\ answers = remote]
    /\ calls' = <<>>
    /\ UNCHANGED <<envVars, txtFile>>

\* The stage as the pipeline runs it.
GSTFetcherProcess == GSTFetcherRun(RunAnswers)

(***************************************************************************)
(* ReviewerAgent                                                           *)
(*                                                                         *)
(* The workbook is a file a stage opens: besides the rows LoggerAgent and   *)
(* GSTFetcherAgent write, ReviewerAgent guards against blank and            *)
(* non-numeric cells (lines 101-109, 137-139, 47-62), so the cells of its   *)
(* input tables are None_, Num(n), Txt (text that float() rejects) or       *)
(* NumTxt(n) (text such as "1,180.00" that spells the number n/256).        *)
(***************************************************************************)
NumTxt(n) == [t |-> "numtxt", n |-> n]

\* float(v) succeeds (lines 102, 107): on a number only.
CanFloat(v) == v.t = "num"

\* float(qty) * float(rate), None when either float() raises (lines 101-104).
\* The product of a/256 and b/256 in units of 1/256; it is exact because
\* quantities are whole numbers.
Computed(row) ==
    IF CanFloat(row.Quantity) /\ CanFloat(row.Rate)
    THEN Num((row.Quantity.n * row.Rate.n) \div 256)
    ELSE None_

\* float(amount) if amount is not None, None when it raises (lines 106-109).
AmountF(row) == IF CanFloat(row.Amount) THEN Num(row.Amount.n) ELSE None_

\* round(x, 2) of the float n/256, in cents.  n/256 is exact in binary, so
\* Python rounds the exact value, ties to even.
Round2(n) ==
    LET q == (n * 25) \div 64
        r == (n * 25) % 64
    IN  IF r < 32 THEN q
        ELSE IF r > 32 THEN q + 1
        ELSE IF q % 2 = 0 THEN q ELSE q + 1

\* Mutant: the two values are compared without rounding.
MatchFlag_NoRounding(row) ==
    /\ Computed(row) # None_
    /\ AmountF(row) # None_
    /\ Computed(row).n = AmountF(row).n

\* match_flag == "✅" (lines 111-114)
MatchFlag(row) ==
    /\ Computed(row) # None_
    /\ AmountF(row) # None_
    /\ Round2(Computed(row).n) = Round2(AmountF(row).n)

\* The LineItem_Errors row of a line item (line 117).
ErrorRow(row) ==
    [DocNo |-> row.DocNo, SNo |-> row.SNo, Description |-> row.Description,
     Quantity |-> row.Quantity, Rate |-> row.Rate, Amount |-> row.Amount,
     Computed |-> Computed(row)]

\* Step 1, the error sheet (lines 96-117).
RECURSIVE ErrorRows(_, _)
ErrorRows(items, i) ==
    IF i > Len(items) THEN <<>>
    ELSE (IF Truthy(items[i].DocNo) /\ ~MatchFlag(items[i])
          THEN <<ErrorRow(items[i])>> ELSE <<>>)
         \o ErrorRows(items, i + 1)

\* What a line item adds to its document's total (lines 121-124), in 1/256.
LineAmount(row) ==
    IF AmountF(row) # None_ THEN AmountF(row).n
    ELSE IF Computed(row) # None_ THEN Computed(row).n
    ELSE 0

\* line_totals[docno] (lines 119-124), in 1/256.
RECURSIVE LineTotal(_, _, _)
LineTotal(items, docno, i) ==
    IF i > Len(items) THEN 0
    ELSE (IF items[i].DocNo = docno THEN LineAmount(items[i]) ELSE 0)
         + LineTotal(items, docno, i + 1)

\* The keys of line_totals in insertion order (lines 98-120).
RECURSIVE DocOrder(_, _, _)
DocOrder(items, i, seen) ==
    IF i > Len(items) THEN <<>>
    ELSE IF Truthy(items[i].DocNo) /\ items[i].DocNo \notin seen
         THEN <<items[i].DocNo>> \o DocOrder(items, i + 1, seen \cup {items[i].DocNo})
         ELSE DocOrder(items, i + 1, seen)

\* dict.get on a lookup built by a loop over rows: the last row of the
\* document wins; 0 if there is none.
LastRowOf(rows, docno) ==
    LET R == {i \in 1..Len(rows) : rows[i].DocNo = docno}
    IN  IF R = {} THEN 0 ELSE CHOOSE i \in R : \A j \in R : j <= i

\* Mutant: a blank rate cell counts as the rate zero.
RateCell_ZeroDefault(v) == IF v = None_ THEN Num(0) ELSE Num(v.n)

\* float(cell) if cell not in (None, "") else None (lines 137-139).
RateCell(v) == IF v = None_ THEN None_ ELSE Num(v.n)

\* _find_totinv_column (lines 14-45) on the header row _init_excel writes:
\* "TotInvVal(QR)", the first header that holds "totinv" and none of
\* "item", "count", "cnt".
TotInvColumn(row) == row.TotInvVal

\* _to_float (lines 47-62)
ToFloat(v) ==
    IF v.t = "num" \/ v.t = "numtxt" THEN Num(v.n) ELSE None_

\* round(x, 2), in cents, of the float the code computes for the field
\* `field`, whose exact value is num/den cents.  The float carries a
\* representation error far below 1/den, so it rounds as the exact value
\* does unless that lies midway between two cents; there the error decides,
\* and fpu says for which fields it decides upwards.
Round2Float(field, num, den) ==
    LET q == num \div den
        r == num % den
    IN  IF 2 * r < den THEN q
        ELSE IF 2 * r > den THEN q + 1
        ELSE IF field \in fpu THEN q + 1 ELSE q

TieFields == {"CGST_calc", "SGST_calc", "ExpectedTotal", "Diff"}

Abs(x) == IF x < 0 THEN -x ELSE x

\* Mutant: the SGST share is left out of the expected total.
ExpectedNum_NoSgst(taxable, cgst, sgst) ==
    taxable * (200 + (cgst.n \div 128))

\* expected_total (lines 167-169) = taxable + taxable * (CGST / 100.0)
\* + taxable * (SGST / 100.0), as an exact number of 1/512 cents.  taxable
\* is in 1/256; the rates are multiples of one half percent.
ExpectedNum(taxable, cgst, sgst) ==
    taxable * (200 + (cgst.n \div 128) + (sgst.n \div 128))

\* status == "✅" (line 172): abs(diff) < 0.01, diff in cents.
StatusOk(diff) == Abs(diff) < 1

\* Step 4 for one document (lines 160-178): the Review_Report row it
\* appends, none when the document is skipped.
ReviewRowsOf(docno, taxable, gstRows, summaryRows) ==
    LET g == LastRowOf(gstRows, docno)
        d == LastRowOf(summaryRows, docno)
        qr_total == IF d = 0 THEN None_ ELSE ToFloat(TotInvColumn(summaryRows[d]))
    IN  IF g = 0 THEN <<>>
        ELSE IF RateCell(gstRows[g].CGST_Rate) = None_
                \/ RateCell(gstRows[g].SGST_Rate) = None_
                \/ qr_total = None_
        THEN <<>>
        ELSE LET cg == RateCell(gstRows[g].CGST_Rate)
                 sg == RateCell(gstRows[g].SGST_Rate)
                 en == ExpectedNum(taxable, cg, sg)
                 diff == Round2Float("Diff", en - 200 * qr_total.n, 512)
             IN  << [DocNo |-> docno,
                     Taxable |-> Round2(taxable),
                     GST_Rate |-> RateCell(gstRows[g].GST_Rate),
                     CGST_calc |-> Round2Float("CGST_calc", taxable * (cg.n \div 128), 512),
                     SGST_calc |-> Round2Float("SGST_calc", taxable * (sg.n \div 128), 512),
                     ExpectedTotal |-> Round2Float("ExpectedTotal", en, 512),
                     QR_Total |-> qr_total,
                     Diff |-> diff,
                     OK |-> StatusOk(diff)] >>

\* Step 4 (lines 159-178): the Review_Report sheet.
RECURSIVE ReviewReport(_, _, _, _)
ReviewReport(order, k, items, w) ==
    IF k > Len(order) THEN <<>>
    ELSE ReviewRowsOf(order[k], LineTotal(items, order[k], 1),
                      w.GST_Fetch, w.Invoice_Summary)
         \o ReviewReport(order, k + 1, items, w)

\* Step 5 (lines 180-193): the "Item Category" cell of every line item
\* whose document has a GST_Fetch row.
Backfill(items, gstRows) ==
    [i \in 1..Len(items) |->
        LET g == LastRowOf(gstRows, items[i].DocNo)
        IN  IF Truthy(items[i].DocNo) /\ g # 0
            THEN [items[i] EXCEPT !.Category = gstRows[g].Description]
            ELSE items[i]]

\* ReviewerAgent().process()
ReviewerProcess ==
    /\ IF ~wb.exists
       THEN /\ wb' = wb
            /\ last' = Ended("reviewer", "halt")
       ELSE IF "GST_Fetch" \notin wb.sheets
       THEN /\ wb' = wb
            /\ last' = Ended("reviewer", "keyerror")
       ELSE /\ wb' = [wb EXCEPT
                       !.sheets = @ \cup {"Review_Report", "LineItem_Errors"},
                       !.Review_Report = ResetSheet(@) \o
                           ReviewReport(DocOrder(wb.Line_Items, 1, {}), 1,
                                        wb.Line_Items, wb),
                       !.LineItem_Errors = ResetSheet(@) \o ErrorRows(wb.Line_Items, 1),
                       !.Line_Items = Backfill(wb.Line_Items, wb.GST_Fetch),
                       !.ItemCategory = TRUE]
            /\ last' = Ended("reviewer", "ok")
    /\ UNCHANGED <<envVars, txtFile, rateVars>>

(***************************************************************************)
(* ReviewerAgent on a workbook as it finds it.  The workbook is a file a    *)
(* user can open between two stages, so the cells of its rows may be blank  *)
(* or hold text; the stores below hold such cells next to the rows          *)
(* LoggerAgent and GSTFetcherAgent write.                                   *)
(***************************************************************************)
MaxReviewItems == 2

\* n/256 as a Num: amounts below one rupee that round(x, 2) changes.
Frac(n) == Num(n)

\* Quantity, Rate and Amount of the line items of the stores.
ReviewCells ==
    { <<Num(Amt(2)), Num(Amt(150)), Num(Amt(300))>>,
      <<Num(Amt(2)), Num(Amt(150)), Num(Amt(300) - 128)>>,
      <<Num(Amt(2)), Num(Amt(150)), None_>>,
      <<Txt, Num(Amt(150)), Num(Amt(300))>>,
      <<None_, Num(Amt(150)), None_>>,
      <<Num(Amt(2)), Num(Amt(500)), Num(Amt(1000))>>,
      <<Num(Amt(1)), Frac(33), Frac(34)>>,
      <<Num(Amt(1)), Frac(64), Frac(64)>> }

ReviewItem(docno, c) ==
    ItemRow(docno, [SNo |-> 1, Description |-> DescLine(<<"X">>), HSN |-> 7323,
                    Quantity |-> c[1], Unit |-> "SET",
                    Rate |-> c[2], Amount |-> c[3]])

ReviewRows ==
    {ReviewItem("D1", c) : c \in ReviewCells}
    \cup {ReviewItem("", <<Num(Amt(2)), Num(Amt(150)), Num(Amt(300) - 128)>>),
          ReviewItem("D2", <<Num(Amt(2)), Num(Amt(500)), Num(Amt(1000))>>)}

RECURSIVE SeqsUpTo(_, _)
SeqsUpTo(S, n) ==
    IF n = 0 THEN {<<>>}
    ELSE LET shorter == SeqsUpTo(S, n - 1)
         IN  shorter \cup {Append(q, x) : q \in shorter, x \in S}

\* The declared totals of document D1.
ReviewTotals ==
    {None_, Txt, Num(Amt(1180)), NumTxt(Amt(1180)), Num(0)}

SummaryRow(seller, docno, tot) ==
    [DocNo |-> docno, SellerGstin |-> seller, TotInvVal |-> tot,
     TaxableAmount |-> None_, CGST_Amount |-> None_, SGST_Amount |-> None_,
     TotalTax |-> None_]

\* What _fetch_gst_details returned for document D1, when it has a row.
ReviewFetches ==
    { FetchGstDetails("94035000", HSN_FALLBACK, [kind |-> "error"]),
      FetchGstDetails("73239920", HSN_FALLBACK, RowAnswer(Pct(5), "Steel utensils")),
      FetchGstDetails("73239920", HSN_FALLBACK, [kind |-> "error"]) }

InitReview ==
    /\ txtFile = NoText
    /\ last = NoStage
    /\ InitRates
    /\ master = NoMaster
    /\ pipe = NoPipe
    \* CGST and SGST are equal in every rate row of these stores, so the
    \* two shares are one and the same float.
    /\ fpu \in {f \in SUBSET TieFields :
                    ("CGST_calc" \in f) <=> ("SGST_calc" \in f)}
    /\ \E items \in SeqsUpTo(ReviewRows, MaxReviewItems),
          tot \in ReviewTotals,
          gst1 \in {<<>>} \cup {<<GstRow("D1", "7323", r)>> : r \in ReviewFetches} :
          wb = [InitExcel(NoWorkbook) EXCEPT
                  !.Line_Items = items,
                  !.Invoice_Summary =
                      <<SummaryRow("S", "D1", tot),
                        SummaryRow("S", "D2", Num(Amt(1175)))>>,
                  !.sheets = {"GST_Fetch"},
                  !.GST_Fetch =
                      gst1 \o <<GstRow("D2", "94035000",
                                  FetchGstDetails("94035000", HSN_FALLBACK,
                                                  [kind |-> "error"]))>>]

NextReview == ReviewerProcess

SpecReview == InitReview /\ [][NextReview]_vars

(***************************************************************************)
(* Properties of ReviewerAgent                                             *)
(***************************************************************************)
ReviewerRan == last.stage = "reviewer" /\ last.outcome = "ok"

IsPresent(v) == v # None_ /\ v.t = "num"

\* Quantity x Rate of a line item when both are numbers, None_ otherwise.
QtyTimesRate(row) ==
    IF IsPresent(row.Quantity) /\ IsPresent(row.Rate)
    THEN Num((row.Quantity.n * row.Rate.n) \div 256)
    ELSE None_

BothPresent(row) == IsPresent(row.Amount) /\ QtyTimesRate(row) # None_

RoundedDiffer(row) == Round2(row.Amount.n) # Round2(QtyTimesRate(row).n)

\* The line items that ReviewerAgent looks at: those with a document number.
Reviewed(items) == SelectSeq(items, LAMBDA row : Truthy(row.DocNo))

\* The error sheet holds, in order, one row for each of the given line
\* items and nothing else; each row carries the item's cells and its
\* computed Quantity x Rate.
ErrorsAre(flagged) ==
    /\ Len(wb.LineItem_Errors) = Len(flagged)
    /\ \A k \in 1..Len(flagged) :
          /\ wb.LineItem_Errors[k].DocNo = flagged[k].DocNo
          /\ wb.LineItem_Errors[k].Quantity = flagged[k].Quantity
          /\ wb.LineItem_Errors[k].Rate = flagged[k].Rate
          /\ wb.LineItem_Errors[k].Amount = flagged[k].Amount
          /\ wb.LineItem_Errors[k].Computed = QtyTimesRate(flagged[k])

\* C4, as claimed: after ReviewerAgent.process a line item has an
\* ErrorRecord exactly when its stored Amount and its computed
\* Quantity x Rate are both present and differ after rounding to 2
\* decimals; a line item for which either value is absent has none.
C4_ErrorIffPresentAndDiffer ==
    ReviewerRan =>
        ErrorsAre(SelectSeq(Reviewed(wb.Line_Items),
                            LAMBDA row : BothPresent(row) /\ RoundedDiffer(row)))

\* C4, amended: after ReviewerAgent.process a line item (with a document
\* number) has an ErrorRecord exactly when it is not the case that its
\* stored Amount and its computed Quantity x Rate are both present and
\* equal after rounding to 2 decimals: when both are present and the
\* rounded values differ, and also when either value is absent.  Quantity 2,
\* Rate 150.00, Amount 300.00 has none; Amount 299.50 has one, with
\* computed 300.00; Amount absent has one.
C4_ErrorUnlessPresentAndEqual ==
    ReviewerRan =>
        /\ ErrorsAre(SelectSeq(Reviewed(wb.Line_Items),
                        LAMBDA row : ~(BothPresent(row) /\ ~RoundedDiffer(row))))
        /\ \A i \in 1..Len(wb.Line_Items) :
              LET row == wb.Line_Items[i]
                  errs == {k \in 1..Len(wb.LineItem_Errors) :
                             /\ wb.LineItem_Errors[k].DocNo = row.DocNo
                             /\ wb.LineItem_Errors[k].Quantity = row.Quantity
                             /\ wb.LineItem_Errors[k].Rate = row.Rate
                             /\ wb.LineItem_Errors[k].Amount = row.Amount}
              IN  (Truthy(row.DocNo) /\ row.Quantity = Num(Amt(2))
                     /\ row.Rate = Num(Amt(150))) =>
                    /\ row.Amount = Num(Amt(300)) => errs = {}
                    /\ row.Amount = Num(Amt(300) - 128) =>
                          /\ errs # {}
                          /\ \A k \in errs :
                                wb.LineItem_Errors[k].Computed = Num(Amt(300))
                    /\ row.Amount = None_ => errs # {}

\* A reviewed store with a matching item or a mismatching one next to an
\* item whose Amount is absent.
C4_Witness ==
    /\ ReviewerRan
    /\ \E i, j \in 1..Len(wb.Line_Items) :
          /\ Truthy(wb.Line_Items[i].DocNo) /\ Truthy(wb.Line_Items[j].DocNo)
          /\ wb.Line_Items[i].Quantity = Num(Amt(2))
          /\ wb.Line_Items[i].Amount = Num(Amt(300) - 128)
          /\ wb.Line_Items[j].Amount = None_
          /\ wb.Line_Items[j].Quantity = Num(Amt(2))
    /\ Len(wb.LineItem_Errors) = 2

\* The exact value c cents is a rounding to 2 decimals of num/den cents.
NearestCent(c, num, den) == 2 * Abs(c * den - num) <= den

\* The sum of what the line items of a document count for: the stored
\* Amount when present, else Quantity x Rate, in 1/256.
RECURSIVE TaxableOf(_, _)
TaxableOf(items, docno) ==
    IF items = <<>> THEN 0
    ELSE (IF Head(items).DocNo # docno THEN 0
          ELSE IF IsPresent(Head(items).Amount) THEN Head(items).Amount.n
          ELSE IF QtyTimesRate(Head(items)) # None_ THEN QtyTimesRate(Head(items)).n
          ELSE 0)
         + TaxableOf(Tail(items), docno)

\* The rate row and the declared total ReviewerAgent used for a document.
RateRowOf(docno) == wb.GST_Fetch[LastRowOf(wb.GST_Fetch, docno)]
DeclaredOf(docno) == wb.Invoice_Summary[LastRowOf(wb.Invoice_Summary, docno)].TotInvVal

\* C5: for every ReviewRecord, ExpectedTotal is Taxable + Taxable*CGST/100
\* + Taxable*SGST/100 (stored rounded to 2 decimals), Diff is that sum minus
\* the declared total, rounded to 2 decimals, and the flag is pass iff
\* |Diff| < 0.01.  Taxable 1000 with CGST = SGST = 9% gives 1180.00; with
\* declared total 1180.00 Diff is 0.00 and the flag pass, with 1175.00 Diff
\* is 5.00 and the flag fail.  (Amounts and rates are in 1/256 and the rates
\* multiples of one half, so a cent is 1024 units of 1/102400.)
C5_ExpectedTotalAndDiff ==
    ReviewerRan =>
        \A k \in 1..Len(wb.Review_Report) :
            LET r == wb.Review_Report[k]
                t == TaxableOf(wb.Line_Items, r.DocNo)
                cgst == RateRowOf(r.DocNo).CGST_Rate.n
                sgst == RateRowOf(r.DocNo).SGST_Rate.n
                declared == DeclaredOf(r.DocNo).n
                \* 102400 * (Taxable + Taxable*CGST/100 + Taxable*SGST/100)
                expected == 400 * t + (t * cgst) \div 64 + (t * sgst) \div 64
            IN  /\ NearestCent(r.ExpectedTotal, expected, 1024)
                /\ NearestCent(r.Diff, expected - 400 * declared, 1024)
                /\ r.OK <=> Abs(r.Diff) < 1
                /\ (t = Amt(1000) /\ cgst = Pct(9).n /\ sgst = Pct(9).n) =>
                      /\ r.ExpectedTotal = 118000
                      /\ declared = Amt(1180) => (r.Diff = 0 /\ r.OK)
                      /\ declared = Amt(1175) => (r.Diff = 500 /\ ~r.OK)

\* Both examples of the claim have been reviewed in one run.
C5_Witness ==
    /\ ReviewerRan
    /\ \E a, b \in 1..Len(wb.Review_Report) :
          /\ wb.Review_Report[a].ExpectedTotal = 118000
          /\ wb.Review_Report[a].Diff = 0 /\ wb.Review_Report[a].OK
          /\ wb.Review_Report[b].ExpectedTotal = 118000
          /\ wb.Review_Report[b].Diff = 500 /\ ~wb.Review_Report[b].OK

\* A ReviewRecord whose expected total lies midway between two cents.
C5_TieReviewed ==
    /\ ReviewerRan
    /\ \E k \in 1..Len(wb.Review_Report) :
          wb.Review_Report[k].Taxable = 25 /\ wb.Review_Report[k].ExpectedTotal = 30

(***************************************************************************)
(* MapperAgent                                                             *)
(*                                                                         *)
(* The strings _normalize_model works on are sequences of characters.       *)
(***************************************************************************)
LowerCase == <<"a", "b", "c", "d", "e", "f", "g", "h", "i", "j", "k", "l", "m", "n", "o", "p", "q", "r", "s", "t", "u", "v", "w", "x", "y", "z">>
UpperCase == <<"A", "B", "C", "D", "E", "F", "G", "H", "I", "J", "K", "L", "M", "N", "O", "P", "Q", "R", "S", "T", "U", "V", "W", "X", "Y", "Z">>

\* str.upper, character by character (ASCII letters).
UpperChar(c) ==
    IF \E i \in 1..Len(LowerCase) : LowerCase[i] = c
    THEN UpperCase[CHOOSE i \in 1..Len(LowerCase) : LowerCase[i] = c]
    ELSE c

Upper(text) == [i \in 1..Len(text) |-> UpperChar(text[i])]

\* \s of re and the characters str.strip removes.
IsSpace(c) == c \in {" ", "\t", "\n", "\r"}

IsDigit(c) == c \in {"0", "1", "2", "3", "4", "5", "6", "7", "8", "9"}

\* str.strip()
RECURSIVE Strip(_)
Strip(text) ==
    IF text = <<>> THEN <<>>
    ELSE IF IsSpace(Head(text)) THEN Strip(Tail(text))
    ELSE IF IsSpace(text[Len(text)]) THEN Strip(SubSeq(text, 1, Len(text) - 1))
    ELSE text

StartsWith(text, i, pat) ==
    /\ i + Len(pat) - 1 <= Len(text)
    /\ SubSeq(text, i, i + Len(pat) - 1) = pat

\* str.replace(pat, ""): every occurrence, left to right.
RECURSIVE Remove(_, _, _)
Remove(text, pat, i) ==
    IF i > Len(text) THEN <<>>
    ELSE IF StartsWith(text, i, pat) THEN Remove(text, pat, i + Len(pat))
    ELSE <<text[i]>> \o Remove(text, pat, i + 1)

\* The end of the digit run that starts at i (i - 1 if text[i] is no digit).
RECURSIVE DigitsEnd(_, _)
DigitsEnd(text, i) ==
    IF i <= Len(text) /\ IsDigit(text[i]) THEN DigitsEnd(text, i + 1) ELSE i - 1

\* Where a match of \(\d+\) that starts at i ends, 0 if there is none.
ParenCodeEnd(text, i) ==
    IF text[i] # "(" THEN 0
    ELSE LET e == DigitsEnd(text, i + 1)
         IN  IF e >= i + 1 /\ e + 1 <= Len(text) /\ text[e + 1] = ")"
             THEN e + 1 ELSE 0

\* re.sub(r"\(\d+\)", "", text)
RECURSIVE RemoveParenCodes(_, _)
RemoveParenCodes(text, i) ==
    IF i > Len(text) THEN <<>>
    ELSE IF ParenCodeEnd(text, i) # 0
         THEN RemoveParenCodes(text, ParenCodeEnd(text, i) + 1)
         ELSE <<text[i]>> \o RemoveParenCodes(text, i + 1)

\* re.sub(r"\s+", " ", text)
RECURSIVE CollapseSpaces(_, _)
CollapseSpaces(text, i) ==
    IF i > Len(text) THEN <<>>
    ELSE IF IsSpace(text[i])
         THEN (IF i > 1 /\ IsSpace(text[i - 1]) THEN <<>> ELSE <<" ">>)
              \o CollapseSpaces(text, i + 1)
         ELSE <<text[i]>> \o CollapseSpaces(text, i + 1)

MODEL_NO == <<"M", "O", "D", "E", "L", " ", "N", "O">>

\* MapperAgent._normalize_model (lines 17-27)
NormalizeModel(text) ==
    IF text = <<>> THEN <<>>
    ELSE Strip(CollapseSpaces(RemoveParenCodes(
            Strip(Remove(Upper(text), MODEL_NO, 1)), 1), 1))

\* A text cell of a sheet: the line LoggerAgent stored (in the stores
\* MapperAgent is run on, a description line), or an empty cell.
TextCell(chars) == DescLine(chars)
NoneCell == [k |-> "none"]

\* str(cell) of a text cell (lines 41, 83): "None" for an empty one.
StrOf(cell) ==
    CASE cell.k = "desc" -> cell.d
      [] cell.k = "none" -> <<"N", "o", "n", "e">>

\* A cell that holds the string s where other rows hold a number.
Str(s) == [t |-> "str", s |-> s]

\* master_map (lines 38-47): the normalized model numbers and, for each, the
\* last master row that has it.
MasterKeys(rows) == {NormalizeModel(StrOf(rows[i].ModelNo)) : i \in 1..Len(rows)}

MasterGet(rows, key) ==
    rows[CHOOSE i \in 1..Len(rows) :
            /\ NormalizeModel(StrOf(rows[i].ModelNo)) = key
            /\ \A j \in 1..Len(rows) :
                  NormalizeModel(StrOf(rows[j].ModelNo)) = key => j <= i]

NOT_FOUND == "NOT FOUND"

\* The Mapped_Items row of a line item (lines 86-99); rate_match is the
\* check mark.
MappedRow(item, rows) ==
    LET norm_model == NormalizeModel(StrOf(item.Description))
    IN  IF norm_model \in MasterKeys(rows)
        THEN LET mapped == MasterGet(rows, norm_model)
             IN  [DocNo |-> item.DocNo, SNo |-> item.SNo,
                  Description |-> item.Description, Rate |-> item.Rate,
                  MappedModel |-> norm_model,
                  ProductName |-> mapped.ProductName, SKU |-> mapped.SKU,
                  MappedHSN |-> mapped.HSN, StandardRate |-> mapped.Rate,
                  rate_match |-> item.Rate = mapped.Rate]
        ELSE [DocNo |-> item.DocNo, SNo |-> item.SNo,
              Description |-> item.Description, Rate |-> item.Rate,
              MappedModel |-> norm_model,
              ProductName |-> NOT_FOUND, SKU |-> NOT_FOUND,
              MappedHSN |-> NOT_FOUND, StandardRate |-> Str(NOT_FOUND),
              rate_match |-> FALSE]

\* The Unmapped_Items row of a line item (lines 100-102).
UnmappedRow(item) ==
    [DocNo |-> item.DocNo, SNo |-> item.SNo,
     Description |-> item.Description, Rate |-> item.Rate,
     NormalizedModel |-> NormalizeModel(StrOf(item.Description))]

\* Line 89 raises for this line item: it is a catalog hit and float()
\* rejects its Rate or the catalog's.
RateRaises(item, rows) ==
    LET norm_model == NormalizeModel(StrOf(item.Description))
    IN  /\ norm_model \in MasterKeys(rows)
        /\ ~CanFloat(item.Rate) \/ ~CanFloat(MasterGet(rows, norm_model).Rate)

RECURSIVE MappedRows(_, _, _)
MappedRows(items, rows, i) ==
    IF i > Len(items) THEN <<>>
    ELSE <<MappedRow(items[i], rows)>> \o MappedRows(items, rows, i + 1)

RECURSIVE UnmappedRows(_, _, _)
UnmappedRows(items, rows, i) ==
    IF i > Len(items) THEN <<>>
    ELSE (IF NormalizeModel(StrOf(items[i].Description)) \in MasterKeys(rows)
          THEN <<>> ELSE <<UnmappedRow(items[i])>>)
         \o UnmappedRows(items, rows, i + 1)

\* MapperAgent().process()
MapperProcess ==
    /\ IF ~master.exists \/ ~wb.exists
       THEN /\ wb' = wb
            /\ last' = Ended("mapper", "halt")
       ELSE IF \E i \in 1..Len(wb.Line_Items) : RateRaises(wb.Line_Items[i], master.rows)
       THEN /\ wb' = wb
            /\ last' = Ended("mapper", "raise")
       ELSE /\ wb' = [wb EXCEPT
                       !.sheets = @ \cup {"Mapped_Items", "Unmapped_Items"},
                       !.Mapped_Items = ResetSheet(@)
                           \o MappedRows(wb.Line_Items, master.rows, 1),
                       !.Unmapped_Items = ResetSheet(@)
                           \o UnmappedRows(wb.Line_Items, master.rows, 1)]
            /\ last' = Ended("mapper", "ok")
    /\ UNCHANGED <<envVars, txtFile, rateVars>>

(***************************************************************************)
(* MapperAgent on a workbook and a master file as it finds them.  The       *)
(* master file is the user's catalog; its cells, like the workbook's, may   *)
(* be blank or hold text.                                                   *)
(***************************************************************************)
MaxMapItems == 2

LabelledModel == <<"M", "o", "d", "e", "l", " ", "N", "o", ":", " ", "A", "B", "C", "-", "1", "0", "0", " ", "(", "7", "3", "2", "3", "9", "9", "2", "0", ")">>
BareModel == <<"A", "B", "C", "-", "1", "0", "0">>

\* The Description cells of the line items.
MapDescriptions ==
    { TextCell(LabelledModel), TextCell(BareModel),
      TextCell(<<"a", "b", "c", "-", "1", "0", "0", " ", " ", "(", "1", "2", ")">>),
      TextCell(<<"M", "o", "d", "e", "l", " ", "N", "o", " ", "A", "B", "C", "-", "1", "0", "0">>),
      TextCell(<<" ", "m", "o", "d", "e", "l", " ", "n", "o", " ", " ", "X", "Y", " ", "(", "7", ")", " ", "Z", " ">>),
      TextCell(<<"X", "Y", "Z">>),
      NoneCell }

MapItem(desc, rate) ==
    ItemRow("D1", [SNo |-> 1, Description |-> desc, HSN |-> 7323,
                   Quantity |-> Num(Amt(2)), Unit |-> "SET",
                   Rate |-> rate, Amount |-> Num(Amt(300))])

MapRows ==
    {MapItem(desc, Num(Amt(150))) : desc \in MapDescriptions}
    \cup {MapItem(TextCell(BareModel), Num(Amt(200))),
          MapItem(TextCell(BareModel), None_),
          MapItem(TextCell(<<"X", "Y", "Z">>), None_)}

MasterRow(model, rate) ==
    [ModelNo |-> IF model = <<>> THEN NoneCell ELSE TextCell(model), ProductName |-> "Steel bowl", SKU |-> "SKU-1",
     HSN |-> "73239920", Rate |-> rate]

\* The master files: none, a header without rows, and catalogs whose
\* Standard Rate is a number, blank or text.
Masters ==
    { NoMaster,
      [exists |-> TRUE, rows |-> <<>>],
      [exists |-> TRUE, rows |-> <<MasterRow(BareModel, Num(Amt(150)))>>],
      [exists |-> TRUE, rows |-> <<MasterRow(<<"a", "b", "c", "-", "1", "0", "0">>, Num(Amt(100))),
                                   MasterRow(BareModel, Num(Amt(150)))>>],
      [exists |-> TRUE, rows |-> <<MasterRow(BareModel, None_)>>],
      [exists |-> TRUE, rows |-> <<MasterRow(BareModel, Txt)>>],
      [exists |-> TRUE, rows |-> <<MasterRow(<<>>, Num(Amt(150))),
                                   MasterRow(<<"X", " ", "Y", " ", "Z">>, Num(Amt(150)))>>] }

InitMapper ==
    /\ txtFile = NoText
    /\ last = NoStage
    /\ InitRates
    /\ fpu = {}
    /\ pipe = NoPipe
    /\ master \in Masters
    /\ \E items \in SeqsUpTo(MapRows, MaxMapItems) :
          wb \in {NoWorkbook, [InitExcel(NoWorkbook) EXCEPT !.Line_Items = items]}

NextMapper == MapperProcess

SpecMapper == InitMapper /\ [][NextMapper]_vars

(***************************************************************************)
(* Properties of MapperAgent                                               *)
(***************************************************************************)
\* C6: _normalize_model maps both "Model No: ABC-100 (73239920)" and
\* "ABC-100" to exactly "ABC-100", so after a MapperAgent run against a
\* catalog that holds the model "ABC-100" a line item with either
\* description is mapped to that catalog row.
C6_LabelledDescriptionMatchesBareModel ==
    (last.stage = "mapper" /\ last.outcome = "ok") =>
        /\ NormalizeModel(LabelledModel) = BareModel
        /\ NormalizeModel(BareModel) = BareModel
        /\ \A k \in 1..Len(wb.Mapped_Items) :
              wb.Mapped_Items[k].Description
                    \in {TextCell(LabelledModel), TextCell(BareModel)} =>
                  /\ wb.Mapped_Items[k].MappedModel = BareModel
                  /\ BareModel \in MasterKeys(master.rows) =>
                        wb.Mapped_Items[k].ProductName # NOT_FOUND

\* What holds of _normalize_model: the bare model is a fixed point, and the
\* labelled description keeps the colon that follows the label.
NormalizeKeepsColon ==
    /\ NormalizeModel(BareModel) = BareModel
    /\ NormalizeModel(LabelledModel) = <<":", " ">> \o BareModel

\* The line items a Mapped_Items / Unmapped_Items sheet must account for.
MappedFor(i) ==
    {k \in 1..Len(wb.Mapped_Items) : k = i /\
        /\ wb.Mapped_Items[k].DocNo = wb.Line_Items[i].DocNo
        /\ wb.Mapped_Items[k].Description = wb.Line_Items[i].Description
        /\ wb.Mapped_Items[k].Rate = wb.Line_Items[i].Rate}

IsMiss(item) == NormalizeModel(StrOf(item.Description)) \notin MasterKeys(master.rows)

AllNotFound(m) ==
    /\ m.ProductName = NOT_FOUND /\ m.SKU = NOT_FOUND
    /\ m.MappedHSN = NOT_FOUND /\ m.StandardRate = Str(NOT_FOUND)

\* The claim's relation between the three sheets.
OneMappedRowPerLineItem ==
    /\ Len(wb.Mapped_Items) = Len(wb.Line_Items)
    /\ \A i \in 1..Len(wb.Line_Items) :
          /\ Cardinality(MappedFor(i)) = 1
          /\ IsMiss(wb.Line_Items[i]) <=> AllNotFound(wb.Mapped_Items[i])
    /\ wb.Unmapped_Items =
          [k \in 1..Len(SelectSeq(wb.Line_Items, IsMiss)) |->
              UnmappedRow(SelectSeq(wb.Line_Items, IsMiss)[k])]

\* C8: after a MapperAgent run over the line items (one that found the
\* master file and the workbook) every LineItem has exactly one MappedItem
\* row, and an UnmappedItem row iff its normalized Description is not a key
\* of the catalog mapping, its MappedItem then carrying "NOT FOUND" in
\* every catalog field; with an empty catalog mapping every LineItem gets
\* an UnmappedItem and the stage does not raise.
C8_EveryLineItemMapped ==
    (last.stage = "mapper" /\ last.outcome # "halt") =>
        /\ OneMappedRowPerLineItem
        /\ master.rows = <<>> =>
              /\ last.outcome = "ok"
              /\ Len(wb.Unmapped_Items) = Len(wb.Line_Items)

\* What holds: the same of every run that completes.
C8_HoldsOfCompletedRuns ==
    (last.stage = "mapper" /\ last.outcome = "ok") =>
        /\ OneMappedRowPerLineItem
        /\ master.rows = <<>> => Len(wb.Unmapped_Items) = Len(wb.Line_Items)

\* With an empty catalog mapping no run raises.
EmptyCatalogNeverRaises ==
    (last.stage = "mapper" /\ master.exists /\ master.rows = <<>>) =>
        last.outcome # "raise"

(***************************************************************************)
(* The stages as scripts: each can be run on its own, in any order, on the  *)
(* files the runs before it left.                                           *)
(***************************************************************************)
MaxDocs == 1

\* What ingestion and validation write for one invoice: the payload, the
\* text of the page and the validation line.
InvoiceText(docno, tot, hsn) ==
    <<QrLine(TRUE, "S1", docno, tot, hsn)>> \o ItemsSeg \o <<ValidationLine>>

PipelineDocs ==
    { InvoiceText("D1", Num(Amt(354)), "94035000"),
      InvoiceText("D2", Num(Amt(350)), "73239920") }

NumDocs(lines) ==
    Cardinality({i \in 1..Len(lines) : lines[i].k = "validation"})

\* ingestion_agent.py and validation_agent.py for one more invoice.
IngestDoc ==
    /\ txtFile.exists
    /\ NumDocs(txtFile.lines) < MaxDocs
    /\ \E doc \in PipelineDocs : txtFile' = TextOf(txtFile.lines \o doc)
    /\ last' = Ended("ingest", "ok")
    /\ UNCHANGED <<envVars, wb, rateVars>>

\* app.py, clear_previous_run_data (lines 33-41).
ClearRun ==
    /\ txtFile' = NoText
    /\ wb' = NoWorkbook
    /\ last' = Ended("clear", "ok")
    /\ UNCHANGED <<envVars, rateVars>>

\* The catalogs of the pipeline runs: none, and one that holds the model of
\* the invoices' line item.
PipelineMasters ==
    { NoMaster,
      [exists |-> TRUE, rows |-> <<MasterRow(<<"x">>, Num(Amt(150)))>>] }

InitPipeline ==
    /\ txtFile = NoText
    /\ wb = NoWorkbook
    /\ last = NoStage
    /\ InitRates
    /\ fpu = {}
    /\ pipe = NoPipe
    /\ master \in PipelineMasters

NextPipeline ==
    \/ ClearRun
    \/ IngestStart
    \/ IngestDoc
    \/ LoggerProcess
    \/ MapperProcess
    \/ GSTFetcherProcess
    \/ ReviewerProcess

SpecPipeline == InitPipeline /\ [][NextPipeline]_vars

(***************************************************************************)
(* Properties of the stages                                                *)
(***************************************************************************)
\* C9, as claimed: each of the four stages is idempotent; a stage run twice
\* in succession with the same inputs leaves every table of the store as
\* the first run left it.
C9_EveryStageIdempotent ==
    [][last'.again => wb' = wb]_vars

\* Two GST_Fetch sheets that differ at most in the Source of a row, which
\* was the service's address and is "Local Cache".
SameButSource(old, new) ==
    /\ Len(new) = Len(old)
    /\ \A k \in 1..Len(old) :
          /\ [new[k] EXCEPT !.Source = old[k].Source] = old[k]
          /\ \/ new[k].Source = old[k].Source
             \/ /\ old[k].Source = URL(old[k].HSN)
                /\ new[k].Source = "Local Cache"

\* C9, amended: LoggerAgent, MapperAgent and ReviewerAgent are idempotent: a
\* second run in succession with the same inputs leaves every table as the
\* first run left it.  A second GSTFetcherAgent run leaves every table as
\* it was except the Source column of GST_Fetch: a code the first run
\* resolved through the service has the service's address as Source after
\* the first run and "Local Cache" after the second; rates, descriptions
\* and the persisted cache are the same.
C9_IdempotentButSource ==
    [][last'.again =>
         IF last'.stage = "gst"
         THEN /\ [wb' EXCEPT !.GST_Fetch = wb.GST_Fetch] = wb
              /\ SameButSource(wb.GST_Fetch, wb'.GST_Fetch)
              /\ hsnFile' = hsnFile
         ELSE wb' = wb /\ hsnFile' = hsnFile]_vars

\* GSTFetcherAgent has run twice in succession against a service that gave
\* the same answers, and a code that is not in the fallback table is
\* served by the cache.
C9_Witness ==
    /\ last.stage = "gst" /\ last.again
    /\ \E k \in 1..Len(wb.GST_Fetch) :
          /\ wb.GST_Fetch[k].HSN \notin DOMAIN HSN_FALLBACK
          /\ wb.GST_Fetch[k].Source = "Local Cache"
          /\ remote[wb.GST_Fetch[k].HSN].kind = "row"

\* C10: a stage that cannot open a required input halts and leaves the
\* store, the persisted rate cache included, exactly as it was.
C10_HaltLeavesStoreUntouched ==
    [][last'.outcome \in {"halt", "keyerror"} =>
          /\ wb' = wb
          /\ txtFile' = txtFile
          /\ hsnFile' = hsnFile]_vars

\* What holds: MapperAgent, GSTFetcherAgent and ReviewerAgent leave the
\* store untouched when they halt.
HaltOfOtherStagesLeavesStoreUntouched ==
    [][(last'.outcome \in {"halt", "keyerror"} /\ last'.stage # "logger") =>
          /\ wb' = wb
          /\ txtFile' = txtFile
          /\ hsnFile' = hsnFile]_vars


(***************************************************************************)
(* GSTFetcherAgent over several runs                                       *)
(*                                                                         *)
(* The script gst_fetcher_agent.py is run once per batch: every run builds *)
(* a new agent (which loads the cache), resolves the code of every         *)
(* document of the workbook and saves the cache.  Between two runs the     *)
(* earlier stages rebuild the workbook.  The cache file lives in           *)
(* data/local_cache and is read as data: _load_hsn_cache lets its entries  *)
(* win over the compiled-in table, so a file may hold entries the program  *)
(* did not write.                                                          *)
(***************************************************************************)
MaxFetchDocs == 2

\* The documents of a batch: document number and the MainHsnCode of its
\* payload ("" when the payload has none).
FetchDocs ==
    { [docno |-> "D1", hsn |-> "94035000"],
      [docno |-> "D2", hsn |-> "73239920"],
      [docno |-> "D3", hsn |-> "39269099"],
      [docno |-> "D4", hsn |-> ""] }

\* Batches of distinct documents (LoggerAgent writes a document once).
FetchBatches ==
    {b \in SeqsUpTo(FetchDocs, MaxFetchDocs) :
        \A i, j \in 1..Len(b) : i # j => b[i] # b[j]}

\* The workbook LoggerAgent leaves for a batch.
FetchWorkbook(b) ==
    [InitExcel(NoWorkbook) EXCEPT
        !.Invoice_Summary =
            [i \in 1..Len(b) |-> SummaryRow("S", b[i].docno, Num(Amt(1180)))],
        !.QR_Meta =
            [i \in 1..Len(b) |->
                [DocNo |-> b[i].docno, SellerGstin |-> "S",
                 TotInvVal |-> Num(Amt(1180)), MainHsnCode |-> b[i].hsn]]]

FetchWorkbooks == {FetchWorkbook(b) : b \in FetchBatches} \cup {NoWorkbook}

\* The cache files a first run can find: none, one that holds a code at
\* rate 0, one whose entry for a code of the compiled-in table differs from
\* the table's.
CacheFiles ==
    { NoCacheFile,
      SaveHsnCache([c \in {"39269099"} |->
                      [gst_rate |-> Pct(0), description |-> "Exempt goods"]]),
      SaveHsnCache([c \in {"94035000"} |->
                      [gst_rate |-> Pct(5), description |-> "Furniture"]]) }

\* One run of the script; the service gives any of its answers.
FetcherRun == GSTFetcherRun(Answers)

\* The earlier stages have rebuilt the workbook for another batch
\* (clear_previous_run_data, then LoggerAgent), or removed it.
NextBatch ==
    /\ wb' \in FetchWorkbooks
    /\ wb' # wb
    /\ last' = NoStage
    /\ UNCHANGED <<envVars, rateVars, txtFile>>

InitFetcher ==
    /\ txtFile = NoText
    /\ last = NoStage
    /\ InitEnv
    /\ wb \in FetchWorkbooks
    /\ hsnFile \in CacheFiles
    /\ hsnCache = LoadHsnCache(hsnFile)
    /\ remote = [c \in Codes |-> [kind |-> "error"]]
    /\ calls = <<>>

NextFetcher == FetcherRun \/ NextBatch

SpecFetcher == InitFetcher /\ [][NextFetcher]_vars

(***************************************************************************)
(* Properties of the rate cache                                            *)
(***************************************************************************)
\* Every key of old is a key of new with the same rate and description.
KeepsEntries(old, new) ==
    \A c \in DOMAIN old : c \in DOMAIN new /\ new[c] = old[c]

Called == calls' # calls /\ Len(calls') = Len(calls) + 1

LastCall == calls'[Len(calls')]

\* The remote tier fails: the request or the parsing raises, the status is
\* not 200, or the response holds no row for the code or no rate in it.
RemoteFailure(answer) ==
    \/ answer.kind \in {"error", "status", "norow"}
    \/ answer.kind = "row" /\ answer.rate = None_

\* C12: a remote-tier failure never propagates out of resolve.  Every
\* resolve call that contacts the service and meets a failure returns: the
\* compiled-in table's rate and description with source fallback when the
\* code is in that table, otherwise (null, null, not-found); and the cache
\* is as it was before the call.
C12_RemoteFailureDegrades ==
    [][(Called /\ LastCall.contacted /\ RemoteFailure(LastCall.answer)) =>
          /\ hsnCache' = hsnCache
          /\ IF LastCall.hsn \in DOMAIN HSN_FALLBACK
             THEN /\ LastCall.gst_rate = HSN_FALLBACK[LastCall.hsn].gst_rate
                  /\ LastCall.description =
                         HSN_FALLBACK[LastCall.hsn].description
                  /\ LastCall.source = "Fallback Dictionary"
             ELSE /\ LastCall.gst_rate = None_
                  /\ LastCall.description = ""
                  /\ LastCall.source = "Not Found"]_vars

\* Two calls have met a failure of the service, one a request that raised
\* and one a row without a rate, and returned not-found.
C12_Witness ==
    /\ Len(calls) = 2
    /\ \A i \in 1..2 :
          /\ calls[i].contacted
          /\ calls[i].source = "Not Found"
    /\ calls[1].answer.kind = "error"
    /\ calls[2].answer.kind = "row" /\ calls[2].answer.rate = None_


(***************************************************************************)
(* Documents ReviewerAgent does not reconcile                              *)
(***************************************************************************)
\* The document numbers of the store.
StoreDocNos ==
    {wb.Line_Items[i].DocNo : i \in 1..Len(wb.Line_Items)}
    \cup {wb.Invoice_Summary[i].DocNo : i \in 1..Len(wb.Invoice_Summary)}
    \cup {wb.GST_Fetch[i].DocNo : i \in 1..Len(wb.GST_Fetch)}

\* No GST_Fetch row, or one whose CGST or SGST cell is blank.
LacksRate(docno) ==
    \/ LastRowOf(wb.GST_Fetch, docno) = 0
    \/ RateRowOf(docno).CGST_Rate = None_
    \/ RateRowOf(docno).SGST_Rate = None_

\* No Invoice_Summary row, or one whose declared total is blank or text
\* that spells no number.
LacksTotal(docno) ==
    \/ LastRowOf(wb.Invoice_Summary, docno) = 0
    \/ DeclaredOf(docno) \in {None_, Txt}

ReviewRecordsOf(docno) ==
    {i \in 1..Len(wb.Review_Report) : wb.Review_Report[i].DocNo = docno}

\* C13: after a ReviewerAgent run, a document that lacks a resolved rate
\* (no GST_Fetch row, or a row whose CGST or SGST is null, as the not-found
\* rows are) or lacks a declared total has no row in Review_Report.
C13_NoReviewWithoutRateOrTotal ==
    ReviewerRan =>
        \A docno \in StoreDocNos :
            (LacksRate(docno) \/ LacksTotal(docno)) =>
                ReviewRecordsOf(docno) = {}

\* A run over line items of two documents: D1 has a declared total and a
\* not-found rate row and got no ReviewRecord, D2 got one.
C13_Witness ==
    /\ ReviewerRan
    /\ \E i \in 1..Len(wb.Line_Items) : wb.Line_Items[i].DocNo = "D1"
    /\ LastRowOf(wb.GST_Fetch, "D1") # 0
    /\ RateRowOf("D1").Source = "Not Found"
    /\ ~LacksTotal("D1")
    /\ ReviewRecordsOf("D1") = {}
    /\ ReviewRecordsOf("D2") # {}


(***************************************************************************)
(* The rows of GST_Fetch                                                   *)
(***************************************************************************)
FetcherRan == last.stage = "gst" /\ last.outcome = "ok"

\* Both halves are present and each is Rate/2.
HalvesOf(row) ==
    /\ IsNum(row.CGST_Rate) /\ IsNum(row.SGST_Rate)
    /\ 2 * row.CGST_Rate.n = row.GST_Rate.n
    /\ 2 * row.SGST_Rate.n = row.GST_Rate.n

\* C14: in every GST_Fetch row GSTFetcherAgent.process writes, whenever
\* the rate is present (any integer percentage resolve returns, 0
\* included), CGST and SGST are both present and each equals Rate/2.
C14_HalvesWheneverRatePresent ==
    FetcherRan =>
        \A i \in 1..Len(wb.GST_Fetch) :
            IsNum(wb.GST_Fetch[i].GST_Rate) => HalvesOf(wb.GST_Fetch[i])

\* What holds instead: the halves are present and equal Rate/2 whenever the
\* rate is present and not 0; a row whose rate is 0 or absent has neither
\* half.
C14_HalvesOfNonzeroRate ==
    FetcherRan =>
        \A i \in 1..Len(wb.GST_Fetch) :
            LET row == wb.GST_Fetch[i]
            IN  IF TruthyNum(row.GST_Rate)
                THEN HalvesOf(row)
                ELSE row.CGST_Rate = None_ /\ row.SGST_Rate = None_

\* A run has written a row whose rate is 0.
C14_ZeroRateRow ==
    /\ FetcherRan
    /\ \E i \in 1..Len(wb.GST_Fetch) : wb.GST_Fetch[i].GST_Rate = Pct(0)


(***************************************************************************)
(* The runners                                                             *)
(*                                                                         *)
(* pipeline.py and app.py run the stage scripts as subprocesses, one after *)
(* the other.  pipe.i is the index of the script the runner is at,         *)
(* pipe.phase what the runner is doing, pipe.child[k] the state of the     *)
(* subprocess of script k:                                                 *)
(*   none     not started                                                  *)
(*   running  started by Popen; it runs its stage                          *)
(*   closed   its stage has ended and its stdout is at end of file, but    *)
(*            the process has not yet terminated (poll() is None)          *)
(*   exited   terminated (poll() is the return code)                       *)
(* While a subprocess runs, `last` is Started(stage) until the stage's     *)
(* process has ended.  The text of the batch is complete when              *)
(* validation_agent.py has run: ingestion_agent.py starts the file and     *)
(* validation_agent.py ends every invoice's block.                         *)
(***************************************************************************)
MaxOutput == 1

\* agents_to_run (pipeline.py lines 49-56), PIPELINE_AGENTS (app.py 16-23)
AGENTS ==
    << "ingestion_agent.py", "validation_agent.py", "logger_agent.py",
       "mapper_agent.py", "gst_fetcher_agent.py", "reviewer_agent.py" >>

StageOf(agent) ==
    CASE agent = "ingestion_agent.py" -> "ingest"
      [] agent = "validation_agent.py" -> "ingest"
      [] agent = "logger_agent.py" -> "logger"
      [] agent = "mapper_agent.py" -> "mapper"
      [] agent = "gst_fetcher_agent.py" -> "gst"
      [] agent = "reviewer_agent.py" -> "reviewer"

Started(stage) ==
    [stage |-> stage, outcome |-> "started", dups |-> 0, again |-> FALSE]

\* The return code of a script whose stage ended with outcome: an uncaught
\* exception ends the interpreter with code 1.
ReturnCode(outcome) == IF outcome \in {"ok", "halt"} THEN 0 ELSE 1

\* readline() returns '' (b''): the subprocess has closed its stdout.
AtEof(child) == child \in {"closed", "exited"}

\* Mutant: the runner does not look whether the subprocess has terminated.
PollDone_Always(child) == TRUE

\* process.poll() is not None (pipeline.py line 29); process.wait() has
\* returned (app.py line 67).
PollDone(child) == child = "exited"

\* subprocess.Popen (pipeline.py lines 17-24, app.py lines 55-61)
Popen ==
    /\ pipe.phase = "idle"
    /\ pipe.i <= Len(AGENTS)
    /\ pipe' = [pipe EXCEPT !.phase = "reading",
                            !.child[pipe.i] = "running",
                            !.lines = 0]
    /\ last' = Started(StageOf(AGENTS[pipe.i]))
    /\ UNCHANGED <<master, fpu, txtFile, wb, rateVars>>

\* A running script prints a line; the runner's readline returns it and the
\* runner prints it (pipeline.py lines 31-32, app.py lines 63-64).
ChildPrint ==
    /\ pipe.phase = "reading"
    /\ \E k \in DOMAIN pipe.child : pipe.child[k] = "running"
    /\ pipe.lines < MaxOutput
    /\ pipe' = [pipe EXCEPT !.lines = @ + 1]
    /\ UNCHANGED <<master, fpu, txtFile, wb, last, rateVars>>

\* A running script runs its stage.
ChildWork ==
    \E k \in DOMAIN pipe.child :
        /\ pipe.child[k] = "running"
        /\ last = Started(StageOf(AGENTS[k]))
        /\ \/ AGENTS[k] = "ingestion_agent.py" /\ IngestStart
           \/ AGENTS[k] = "validation_agent.py" /\ IngestDoc
           \/ AGENTS[k] = "logger_agent.py" /\ LoggerProcess
           \/ AGENTS[k] = "mapper_agent.py" /\ MapperProcess
           \/ AGENTS[k] = "gst_fetcher_agent.py" /\ GSTFetcherProcess
           \/ AGENTS[k] = "reviewer_agent.py" /\ ReviewerProcess

\* The script's stage has ended: the interpreter shuts down and its stdout
\* reaches end of file.
ChildClose ==
    /\ \E k \in DOMAIN pipe.child :
          /\ pipe.child[k] = "running"
          /\ last.stage = StageOf(AGENTS[k])
          /\ last.outcome # "started"
          /\ pipe' = [pipe EXCEPT !.child[k] = "closed"]
    /\ UNCHANGED <<master, fpu, txtFile, wb, last, rateVars>>

\* The subprocess terminates.
ChildExit ==
    /\ \E k \in DOMAIN pipe.child :
          /\ pipe.child[k] = "closed"
          /\ pipe' = [pipe EXCEPT !.child[k] = "exited"]
    /\ UNCHANGED <<master, fpu, txtFile, wb, last, rateVars>>

\* pipeline.py lines 27-37: readline returns '' and poll() is not None;
\* the loop ends, the return code is reported and the for loop of line 58
\* goes on to the next script.  (While poll() is None the loop reads
\* again.)
PipelineBreak ==
    /\ pipe.runner = "pipeline"
    /\ pipe.phase = "reading"
    /\ AtEof(pipe.child[pipe.i])
    /\ PollDone(pipe.child[pipe.i])
    /\ pipe' = [pipe EXCEPT !.phase = "idle", !.i = @ + 1]
    /\ UNCHANGED <<master, fpu, txtFile, wb, last, rateVars>>

\* app.py lines 63-67: readline returns b''; stdout is closed and the
\* runner waits for the subprocess.
AppEndOfOutput ==
    /\ pipe.runner = "app"
    /\ pipe.phase = "reading"
    /\ AtEof(pipe.child[pipe.i])
    /\ pipe' = [pipe EXCEPT !.phase = "waiting"]
    /\ UNCHANGED <<master, fpu, txtFile, wb, last, rateVars>>

\* app.py lines 67-71: process.wait() returns; a return code other than 0
\* stops the script run (st.stop), otherwise the loop goes on.
AppWaitReturns ==
    /\ pipe.runner = "app"
    /\ pipe.phase = "waiting"
    /\ PollDone(pipe.child[pipe.i])
    /\ pipe' = [pipe EXCEPT
                  !.phase = IF ReturnCode(last.outcome) # 0
                            THEN "stopped" ELSE "idle",
                  !.i = @ + 1]
    /\ UNCHANGED <<master, fpu, txtFile, wb, last, rateVars>>

\* The runner starts on a cleared store (app.py line 102), with or without
\* a master file.
InitRunner ==
    /\ txtFile = NoText
    /\ wb = NoWorkbook
    /\ last = NoStage
    /\ InitRates
    /\ fpu = {}
    /\ master \in PipelineMasters
    /\ \E runner \in {"pipeline", "app"} :
          pipe = [runner |-> runner, i |-> 1, phase |-> "idle",
                  child |-> [k \in 1..Len(AGENTS) |-> "none"], lines |-> 0]

NextRunner ==
    \/ Popen
    \/ ChildPrint
    \/ ChildWork
    \/ ChildClose
    \/ ChildExit
    \/ PipelineBreak
    \/ AppEndOfOutput
    \/ AppWaitReturns

SpecRunner == InitRunner /\ [][NextRunner]_vars

(***************************************************************************)
(* Properties of the runners                                               *)
(***************************************************************************)
\* The subprocesses that have been started and have not terminated.
Unfinished(p) == {k \in DOMAIN p.child : p.child[k] \in {"running", "closed"}}

AtWork(p) == {k \in DOMAIN p.child : p.child[k] = "running"}

MapperRan == last.stage = "mapper"

\* C16: no per-record failure terminates a stage.  Whatever the cells of
\* the line items and of the catalog hold, a MapperAgent run that found its
\* two files completes: it does not end with an exception, and every
\* LineItem row has been processed into a Mapped_Items row.
C16_NoRecordFailureEndsStage ==
    (MapperRan /\ master.exists /\ wb.exists) =>
        /\ last.outcome = "ok"
        /\ Len(wb.Mapped_Items) = Len(wb.Line_Items)

\* What holds instead: the run ends with an exception, before anything is
\* saved, exactly when some line item hits the catalog and its Rate or the
\* catalog's Standard Rate is blank or text; otherwise it completes.
C16_RaisesOnCatalogHitWithoutNumber ==
    (MapperRan /\ master.exists /\ wb.exists) =>
        IF \E i \in 1..Len(wb.Line_Items) :
               RateRaises(wb.Line_Items[i], master.rows)
        THEN last.outcome = "raise" /\ wb.Mapped_Items = <<>>
        ELSE last.outcome = "ok"


(***************************************************************************)
(* The remote tier's hits                                                  *)
(***************************************************************************)
\* The service's response holds a row for the code and an integer in its
\* rate cell.
RemoteHit(answer) == answer.kind = "row" /\ IsNum(answer.rate)

\* C17: whenever a resolve call reaches the remote tier and the response
\* holds a row for the queried code with an integer rate (0 included), the
\* call writes {rate, description} into the cache under the code and
\* returns that rate with the service URL as source.
C17_RemoteHitCachedAndReturned ==
    [][(Called /\ LastCall.contacted /\ RemoteHit(LastCall.answer)) =>
          /\ LastCall.hsn \in DOMAIN hsnCache'
          /\ hsnCache'[LastCall.hsn] =
                [gst_rate |-> LastCall.answer.rate,
                 description |-> LastCall.answer.description]
          /\ LastCall.gst_rate = LastCall.answer.rate
          /\ LastCall.source = URL(LastCall.hsn)]_vars

\* What holds instead: a row with a rate other than 0 is cached and
\* returned with the URL as source; a row with the rate 0 is treated as no
\* row at all: the cache is as it was and the call returns not-found.
C17_NonzeroCachedZeroDropped ==
    [][(Called /\ LastCall.contacted /\ RemoteHit(LastCall.answer)) =>
          IF LastCall.answer.rate.n # 0
          THEN /\ LastCall.hsn \in DOMAIN hsnCache'
               /\ hsnCache'[LastCall.hsn] =
                     [gst_rate |-> LastCall.answer.rate,
                      description |-> LastCall.answer.description]
               /\ LastCall.gst_rate = LastCall.answer.rate
               /\ LastCall.source = URL(LastCall.hsn)
          ELSE /\ hsnCache' = hsnCache
               /\ LastCall.gst_rate = None_
               /\ LastCall.source = "Not Found"]_vars


(***************************************************************************)
(* LoggerAgent on texts of whole blocks                                    *)
(*                                                                         *)
(* The texts below are made of terminated blocks that differ in what the   *)
(* passes of _parse_invoice meet: a payload that json.loads rejects, a tax *)
(* line with or without its fourth amount, quantity lines with and without *)
(* an 8-digit code above them.                                             *)
(***************************************************************************)
MaxBlocks == 2

\* Tax lines: no fourth amount; a fourth amount; a fourth amount of 0.00
\* next to CGST and SGST of 27.00; all three tax amounts 0.00.
ParseTaxes ==
    { <<>>,
      <<HsnTaxLine, TaxLine(Num(Amt(300)), Num(Amt(27)), Num(Amt(27)), None_)>>,
      <<HsnTaxLine, TaxLine(Num(Amt(300)), Num(Amt(27)), Num(Amt(27)), Num(Amt(60)))>>,
      <<HsnTaxLine, TaxLine(Num(Amt(300)), Num(Amt(27)), Num(Amt(27)), Num(0))>>,
      <<HsnTaxLine, TaxLine(Num(Amt(300)), Num(0), Num(0), Num(0))>> }

\* The usual layout of one line item.
UsualItem ==
    <<HdrLine, SnoLine(1), DescLine(<<"X">>), Hsn8Line(7323),
      QtyLine(2, "SET"), NumLine(Amt(150)), NumLine(Amt(300))>>

\* Other layouts: a shorter code above the quantity line; the 8-digit
\* code two rows above the quantity line and a text line between; the
\* quantity line first, the description and the code after the amounts; a
\* usual item after a discarded one.
OddItems ==
    { <<HdrLine, SnoLine(1), DescLine(<<"Y">>), DigitsLine(732),
        QtyLine(3, "KG"), NumLine(Amt(100)), NumLine(Amt(300))>>,
      <<HdrLine, SnoLine(1), Hsn8Line(7323), DescLine(<<"Z">>),
        QtyLine(4, "KG"), NumLine(Amt(100)), NumLine(Amt(400))>>,
      <<HdrLine, QtyLine(5, "KG"), NumLine(Amt(100)), NumLine(Amt(500)),
        DescLine(<<"W">>), Hsn8Line(7323)>>,
      <<HdrLine, SnoLine(1), DescLine(<<"Y">>), DigitsLine(732),
        QtyLine(3, "KG"), NumLine(Amt(100)), NumLine(Amt(300)),
        SnoLine(2), DescLine(<<"X">>), Hsn8Line(7323),
        QtyLine(2, "SET"), NumLine(Amt(150)), NumLine(Amt(300))>> }

\* The blocks: document D1 with each tax line, a block whose payload is
\* malformed with each tax line, document D2 with each other layout.
ParseBlocks ==
    { <<QrLine(TRUE, "S", "D1", Num(Amt(354)), "73239920")>> \o UsualItem
        \o tax \o <<ValidationLine>> : tax \in ParseTaxes }
    \cup
    { <<QrLine(FALSE, "S", "D3", Num(Amt(354)), "73239920")>> \o UsualItem
        \o tax \o <<ValidationLine>> : tax \in ParseTaxes }
    \cup
    { <<QrLine(TRUE, "S", "D2", Num(Amt(354)), "73239920")>> \o items
        \o <<ValidationLine>> : items \in OddItems }

RECURSIVE Flatten(_)
Flatten(blocks) ==
    IF blocks = <<>> THEN <<>> ELSE Head(blocks) \o Flatten(Tail(blocks))

InitParse ==
    /\ wb = NoWorkbook
    /\ last = NoStage
    /\ InitRates
    /\ InitEnv
    /\ \E blocks \in SeqsUpTo(ParseBlocks, MaxBlocks) :
          txtFile = TextOf(Flatten(blocks))

NextParse == LoggerProcess

SpecParse == InitParse /\ [][NextParse]_vars

(***************************************************************************)
(* Properties of the passes of _parse_invoice                              *)
(***************************************************************************)
TextBlocks == SplitInvoices(txtFile.lines)

\* The block has a payload that json.loads rejects.
Malformed(block) ==
    /\ FirstFrom(block, 1, {"qr"}) # 0
    /\ ~block[FirstFrom(block, 1, {"qr"})].ok

SummaryRows == {wb.Invoice_Summary[i] : i \in 1..Len(wb.Invoice_Summary)}

ItemRowSet == {wb.Line_Items[i] : i \in 1..Len(wb.Line_Items)}

\* C18: a terminated block whose payload JSON is malformed is still
\* processed by LoggerAgent: after a run the store holds for it a Document
\* row whose payload fields are null and whose tax totals are the block's,
\* and the line items of the block.
C18_MalformedPayloadBlockProcessed ==
    LoggerRan =>
        \A b \in 1..Len(TextBlocks) :
            Malformed(TextBlocks[b]) =>
                /\ \E row \in SummaryRows :
                      /\ row.DocNo = "" /\ row.SellerGstin = ""
                      /\ row.TotInvVal = None_
                      /\ row.TotalTax = TaxesOf(TextBlocks[b]).TotalTax
                /\ \A k \in 1..Len(ParseItems(TextBlocks[b])) :
                      ItemRow("", ParseItems(TextBlocks[b])[k]) \in ItemRowSet

RECURSIVE WellFormedOnly(_)
WellFormedOnly(blocks) ==
    IF blocks = <<>> THEN <<>>
    ELSE (IF Malformed(Head(blocks)) THEN <<>> ELSE Head(blocks))
         \o WellFormedOnly(Tail(blocks))

\* What holds instead: _parse_invoice returns for such a block null
\* payload fields next to the tax totals and line items it parsed, and
\* process then skips the block: the store is what the text without the
\* malformed blocks gives, and no row has a null document number.
C18_MalformedPayloadBlockSkipped ==
    LoggerRan =>
        /\ wb.Invoice_Summary =
              LoggerRun(InitExcel(NoWorkbook), WellFormedOnly(TextBlocks)).S
        /\ wb.Line_Items =
              LoggerRun(InitExcel(NoWorkbook), WellFormedOnly(TextBlocks)).I
        /\ \A row \in SummaryRows \cup ItemRowSet : row.DocNo # ""
        /\ \A b \in 1..Len(TextBlocks) :
              Malformed(TextBlocks[b]) =>
                  /\ ParseInvoice(TextBlocks[b]).summary.DocNo = ""
                  /\ ParseInvoice(TextBlocks[b]).summary.TotInvVal = None_
                  /\ ParseInvoice(TextBlocks[b]).items # <<>>


\* The block a Document row was written from: the first block of the text
\* with the row's document number.
BlockOf(docno) ==
    TextBlocks[CHOOSE b \in 1..Len(TextBlocks) :
                  /\ QrMetaOf(TextBlocks[b]).DocNo = docno
                  /\ \A c \in 1..(b - 1) :
                        QrMetaOf(TextBlocks[c]).DocNo # docno]

TaxLineOf(block) == block[FirstFrom(block, 1, {"tax"})]

HasTaxLine(block) == FirstFrom(block, 1, {"tax"}) # 0

\* C19: in the tax-totals pass, when the matched line carries a fourth
\* amount, TotalTax is that amount, whatever its value (0.00 included);
\* TotalTax is CGST + SGST only when the fourth amount is absent.
C19_TotalTaxIsFourthAmount ==
    LoggerRan =>
        \A row \in SummaryRows :
            HasTaxLine(BlockOf(row.DocNo)) =>
                LET t == TaxLineOf(BlockOf(row.DocNo))
                IN  IF t.g5 # None_
                    THEN row.TotalTax = Num(t.g5.n)
                    ELSE row.TotalTax = Num(t.g3.n + t.g4.n)

\* What holds instead: TotalTax is the fourth amount when that is present
\* and not 0.00; when it is absent or 0.00, TotalTax is CGST + SGST.
C19_ZeroFourthAmountReplaced ==
    LoggerRan =>
        \A row \in SummaryRows :
            HasTaxLine(BlockOf(row.DocNo)) =>
                LET t == TaxLineOf(BlockOf(row.DocNo))
                IN  IF t.g5 # None_ /\ t.g5.n # 0
                    THEN row.TotalTax = Num(t.g5.n)
                    ELSE row.TotalTax = Num(t.g3.n + t.g4.n)

\* The quantity lines of a block's items section, by 0-based index.
Candidates(lines) == {i \in 0..(Len(lines) - 1) : IsQtyLine(lines[i + 1])}

\* The Line_Items rows of a document that carry the quantity and the unit
\* of the quantity line of candidate i (the quantity lines of one block of
\* the texts differ).
RowsOfCandidate(docno, lines, i) ==
    {row \in ItemRowSet :
        /\ row.DocNo = docno
        /\ row.Quantity = Num(lines[i + 1].q * 256)
        /\ row.Unit = lines[i + 1].u}

\* The line is exactly an 8-digit category code.
EightDigitCode(l) == l # IndexError /\ l.k = "hsn8"

\* C20, as claimed: a candidate found at a quantity+unit line is discarded
\* whenever the line two rows above that line is not exactly an 8-digit
\* category code; no LineItem is written for it.
C20_DiscardedUnlessCodeTwoAbove ==
    LoggerRan =>
        \A row \in SummaryRows :
            LET lines == ItemsSection(BlockOf(row.DocNo))
            IN  \A i \in Candidates(lines) :
                    ~EightDigitCode(PyAt(lines, i - 2)) =>
                        RowsOfCandidate(row.DocNo, lines, i) = {}

\* C20, amended: a candidate is discarded whenever the line the code takes
\* as the category code, lines[i - 1] (the line immediately above the
\* quantity line; the last line of the section for a quantity line that is
\* the section's first), is not exactly an 8-digit code; no LineItem is
\* written for it.
C20_DiscardedUnlessCodeAbove ==
    LoggerRan =>
        \A row \in SummaryRows :
            LET lines == ItemsSection(BlockOf(row.DocNo))
            IN  \A i \in Candidates(lines) :
                    ~EightDigitCode(PyAt(lines, i - 1)) =>
                        RowsOfCandidate(row.DocNo, lines, i) = {}

\* A run over a block with two candidates: the one under a shorter code
\* was discarded, the one under an 8-digit code became the document's only
\* LineItem.
C20_Witness ==
    /\ LoggerRan
    /\ \E row \in SummaryRows :
          LET lines == ItemsSection(BlockOf(row.DocNo))
          IN  /\ \E i \in Candidates(lines) :
                    /\ ~EightDigitCode(PyAt(lines, i - 1))
                    /\ RowsOfCandidate(row.DocNo, lines, i) = {}
              /\ \E i \in Candidates(lines) :
                    /\ EightDigitCode(PyAt(lines, i - 1))
                    /\ RowsOfCandidate(row.DocNo, lines, i) # {}
              /\ Cardinality({r \in ItemRowSet : r.DocNo = row.DocNo}) = 1

(***************************************************************************)
(* The window around a quantity line                                       *)
(***************************************************************************)
\* The Line_Items rows of a document.
RowsOfDoc(docno) == {row \in ItemRowSet : row.DocNo = docno}

\* The window of the quantity line at 0-based index i fits the section:
\* three lines before it and two after it exist.
WindowFits(lines, i) == i - 3 >= 0 /\ i + 2 <= Len(lines) - 1

\* S.No of a row read from line l.
SnoFrom(l) == IF MatchesSno(l) THEN SnoOf(l) ELSE None_

\* The row's fields are those of the lines at the given 1-based positions
\* of the section: S.No, description, code, quantity+unit, rate, amount.
AssembledFrom(row, lines, pos) ==
    /\ row.SNo = SnoFrom(lines[pos[1]])
    /\ row.Description = lines[pos[2]]
    /\ lines[pos[3]] = Hsn8Line(row.HSN)
    /\ lines[pos[4]] = QtyLine(row.Quantity.n \div 256, row.Unit)
    /\ FloatOk(lines[pos[5]]) /\ row.Rate = FloatOf(lines[pos[5]])
    /\ FloatOk(lines[pos[6]]) /\ row.Amount = FloatOf(lines[pos[6]])

\* C21: every field of a reconstructed LineItem is taken from a line inside
\* the fixed window around its quantity line (three lines before through
\* two lines after, within the items section); a quantity line too close
\* to the start of the section for the window to fit yields no LineItem.
C21_FieldsFromWindow ==
    LoggerRan =>
        \A srow \in SummaryRows :
            LET lines == ItemsSection(BlockOf(srow.DocNo))
            IN  /\ \A row \in RowsOfDoc(srow.DocNo) :
                      \E i \in Candidates(lines) :
                          /\ WindowFits(lines, i)
                          /\ AssembledFrom(row, lines,
                                <<i - 2, i - 1, i, i + 1, i + 2, i + 3>>)
                /\ \A i \in Candidates(lines) :
                      ~WindowFits(lines, i) =>
                          RowsOfCandidate(srow.DocNo, lines, i) = {}

\* The 1-based position that Python's lines[j] reads in a list of n lines
\* (0 when it raises IndexError): a negative j counts from the end.
PyPos(n, j) ==
    IF j >= 0 THEN (IF j < n THEN j + 1 ELSE 0)
    ELSE (IF -j <= n THEN n + j + 1 ELSE 0)

\* What holds instead: every LineItem is assembled from the lines that
\* lines[i - 3] .. lines[i + 2] read, where an index below 0 reads from the
\* end of the section; only the two lines after the quantity line must
\* exist inside the section.
C21_FieldsFromWrappedWindow ==
    LoggerRan =>
        \A srow \in SummaryRows :
            LET lines == ItemsSection(BlockOf(srow.DocNo))
                n == Len(lines)
            IN  \A row \in RowsOfDoc(srow.DocNo) :
                    \E i \in Candidates(lines) :
                        /\ i + 2 <= n - 1
                        /\ \A j \in (i - 3)..(i + 2) : PyPos(n, j) # 0
                        /\ AssembledFrom(row, lines,
                              <<PyPos(n, i - 3), PyPos(n, i - 2), PyPos(n, i - 1),
                                PyPos(n, i), PyPos(n, i + 1), PyPos(n, i + 2)>>)

\* A run that wrote a LineItem for a quantity line that is the first line
\* of its section: the code and the description are the section's last two
\* lines.
C21_FirstLineCandidate ==
    /\ LoggerRan
    /\ \E srow \in SummaryRows :
          LET lines == ItemsSection(BlockOf(srow.DocNo))
          IN  /\ 0 \in Candidates(lines)
              /\ RowsOfCandidate(srow.DocNo, lines, 0) # {}

(***************************************************************************)
(* Blocks skipped as duplicates                                            *)
(***************************************************************************)
\* The blocks of a text that carry both identifiers, with their pairs.
KeyedBlocks(text) ==
    SelectSeq(SplitInvoices(text),
              LAMBDA b : Truthy(QrMetaOf(b).SellerGstin) /\ Truthy(QrMetaOf(b).DocNo))

PairOf(block) == <<QrMetaOf(block).SellerGstin, QrMetaOf(block).DocNo>>

StoredPairs(w) ==
    { <<w.Invoice_Summary[i].SellerGstin, w.Invoice_Summary[i].DocNo>> :
        i \in 1..Len(w.Invoice_Summary) }

\* The blocks of the text whose own (SellerGstin, DocNo) pair the store
\* already holds or an earlier block of the text carries.
RepeatedPairs(w, text) ==
    LET blocks == KeyedBlocks(text)
    IN  { i \in 1..Len(blocks) :
            \/ PairOf(blocks[i]) \in StoredPairs(w)
            \/ \E j \in 1..(i - 1) : PairOf(blocks[j]) = PairOf(blocks[i]) }

\* The same with the composite key in the place of the pair.
RepeatedKeys(w, text) ==
    LET blocks == KeyedBlocks(text)
        KeyOf(b) == CompKey(PairOf(b)[1], PairOf(b)[2])
    IN  { i \in 1..Len(blocks) :
            \/ KeyOf(blocks[i]) \in ExistingKeys(w.Invoice_Summary)
            \/ \E j \in 1..(i - 1) : KeyOf(blocks[j]) = KeyOf(blocks[i]) }

\* C22: dedup never conflates distinct documents: a LoggerAgent run skips
\* as duplicates only the blocks whose own (SellerTaxId, DocNo) pair was
\* ingested before; a block is never skipped because of a block or a row
\* with a different pair, whatever characters the two values contain.
C22_SkippedOnlyForOwnPair ==
    [][ (txtFile.exists /\ last'.stage = "logger" /\ last'.outcome = "ok") =>
            /\ last'.dups = Cardinality(RepeatedPairs(InitExcel(wb), txtFile.lines))
            /\ \A b \in 1..Len(KeyedBlocks(txtFile.lines)) :
                  PairOf(KeyedBlocks(txtFile.lines)[b]) \in StoredPairs(wb') ]_vars

\* What holds instead: the blocks skipped are those whose composite key
\* "<SellerGstin>_<DocNo>" was met before, and two different pairs can
\* spell one key.
C22_SkippedForSameKey ==
    [][ (txtFile.exists /\ last'.stage = "logger" /\ last'.outcome = "ok") =>
            last'.dups = Cardinality(RepeatedKeys(InitExcel(wb), txtFile.lines)) ]_vars

\* A store that holds ("A_B", "C") after a run over a text that also
\* carries ("A", "B_C"), or the other way round.
C22_ConflatedPair ==
    /\ LoggerRan
    /\ \E p \in IngestedPairs(txtFile.lines) :
          /\ p \notin StoredPairs(wb)
          /\ \E q \in StoredPairs(wb) : CompKey(q[1], q[2]) = CompKey(p[1], p[2])

(***************************************************************************)
(* Documents ReviewerAgent reconciles                                      *)
(***************************************************************************)
\* The documents of the store: the document numbers of Invoice_Summary.
Documents ==
    {wb.Invoice_Summary[i].DocNo : i \in 1..Len(wb.Invoice_Summary)}

\* line_totals has the document for a key: some Line_Items row carries it.
HasLineItems(docno) ==
    \E i \in 1..Len(wb.Line_Items) : wb.Line_Items[i].DocNo = docno

\* C23: after a ReviewerAgent run, every Document that has a resolved rate
\* (non-null CGST and SGST in its GST_Fetch row) and a non-null declared
\* total has exactly one row in Review_Report, whether or not any
\* Line_Items rows exist for it.
C23_OneReviewPerReconcilableDocument ==
    ReviewerRan =>
        \A docno \in Documents :
            (~LacksRate(docno) /\ ~LacksTotal(docno)) =>
                Cardinality(ReviewRecordsOf(docno)) = 1

\* What holds instead: step 4 walks the keys of line_totals, so such a
\* document has exactly one ReviewRecord when some Line_Items row carries
\* its number, and none when no row does.
C23_OneReviewOnlyWithLineItems ==
    ReviewerRan =>
        \A docno \in Documents :
            (~LacksRate(docno) /\ ~LacksTotal(docno)) =>
                Cardinality(ReviewRecordsOf(docno)) =
                    (IF HasLineItems(docno) THEN 1 ELSE 0)

\* A run over a store where document D2 has a rate row, a declared total
\* and no line item: Review_Report holds no row for it.
C23_DocumentWithoutLineItems ==
    /\ ReviewerRan
    /\ "D2" \in Documents
    /\ ~LacksRate("D2") /\ ~LacksTotal("D2")
    /\ ~HasLineItems("D2")
    /\ ReviewRecordsOf("D2") = {}


=============================================================================
